---- MODULE Spec2Model ----
(***************************************************************************)
(* Model of the feed decoder of package rss (decode.go).                   *)
(*                                                                         *)
(* A buffer ([]byte) is a sequence of symbols.  A non-negative symbol is   *)
(* one code point; a negative symbol stands for a fixed run of ASCII       *)
(* bytes (a lexeme of the XML declaration, or the text of the document     *)
(* element), or for one raw byte that is not valid UTF-8 on its own.       *)
(***************************************************************************)
EXTENDS Integers, Sequences, FiniteSets, TLC

----------------------------------------------------------------------------
(* Symbols.                                                                *)

TAB   == 9
LF    == 10
VT    == 11          \* U+000B, not an XML 1.0 Char
SP    == 32
DQ    == 34          \* "
SQ    == 39          \* '
EACUTE == 233        \* U+00E9
REPL  == 65533       \* U+FFFD

XMLO  == 0 - 1       \* <?xml
VER   == 0 - 2       \* version=
ENC   == 0 - 3       \* encoding=
SAL   == 0 - 4       \* standalone=
V10   == 0 - 5       \* 1.0
V11   == 0 - 6       \* 1.1
YES   == 0 - 7       \* yes
NO    == 0 - 8       \* no
PE    == 0 - 9       \* ?>
UTF8U == 0 - 10      \* UTF-8
UTF8L == 0 - 11      \* utf-8
LATINU == 0 - 12     \* ISO-8859-1
LATINL == 0 - 13     \* iso-8859-1
BOGUS == 0 - 14      \* x-nosuch (a label no character set has)
XERS  == 0 - 15      \* xersion=
PIO   == 0 - 16      \* <?xml-stylesheet
ROOT  == 0 - 17      \* the text of the document element
RAWE9 == 0 - 18      \* the single byte 0xE9
MOJI  == 0 - 19      \* what a multi-byte UTF-8 sequence reads as in windows-1252

IsSpace(c) == c \in {TAB, LF, 13, SP}
IsQuote(c) == c \in {DQ, SQ}

\* A sequence without its first n elements.
Drop(s, n) == IF n >= Len(s) THEN << >> ELSE SubSeq(s, n + 1, Len(s))

\* The least i >= from with s[i] = c, or 0.
IndexFrom(s, c, from) ==
  LET hits == { i \in from..Len(s) : s[i] = c }
  IN  IF hits = {} THEN 0 ELSE CHOOSE i \in hits : \A j \in hits : i <= j

\* Position after the run of whitespace that starts at i.
RECURSIVE SkipSpace(_, _)
SkipSpace(s, i) ==
  IF i <= Len(s) /\ IsSpace(s[i]) THEN SkipSpace(s, i + 1) ELSE i

----------------------------------------------------------------------------
(* getEncodingName: the regular expression, matched as regexp does         *)
(* (leftmost match, a greedy optional group preferred present, \S+? the    *)
(* shortest run that lets the rest match).                                 *)

\* TailMatches for an expression that does not end with \s*\?> : the
\* optional group matches at every position.
TailMatchesNoEnd(s, i) == TRUE

\* (?:\s+standalone=(?:"yes"|'yes'|"no"|'no'))?\s*\?>  at position i
TailMatches(s, i) ==
  LET j == SkipSpace(s, i)
      sa == /\ j > i
            /\ j + 3 <= Len(s)
            /\ s[j] = SAL
            /\ IsQuote(s[j + 1])
            /\ s[j + 2] \in {YES, NO}
            /\ s[j + 3] = s[j + 1]
      closes(k) == LET e == SkipSpace(s, k) IN e <= Len(s) /\ s[e] = PE
  IN  (sa /\ closes(j + 4)) \/ closes(i)

\* \s+encoding=("\S+?"|'\S+?') at position i: the set of positions of the
\* closing quote for which the rest of the expression matches.
EncCloses(s, i) ==
  LET j == SkipSpace(s, i)
  IN  IF ~(j > i /\ j + 3 <= Len(s) /\ s[j] = ENC /\ IsQuote(s[j + 1]))
      THEN {}
      ELSE { k \in (j + 3)..Len(s) :
               /\ s[k] = s[j + 1]
               /\ \A m \in (j + 2)..(k - 1) : ~IsSpace(s[m])
               /\ TailMatches(s, k + 1) }

\* VersionEnd with a version pattern that takes any version number.
VersionEndAnyNumber(s, i) ==
  IF i > Len(s) \/ s[i] # XMLO THEN 0
  ELSE LET j == SkipSpace(s, i + 1)
       IN  IF /\ j > i + 1
              /\ j + 3 <= Len(s)
              /\ s[j] = VER
              /\ IsQuote(s[j + 1])
              /\ s[j + 2] \in {V10, V11}
              /\ s[j + 3] = s[j + 1]
           THEN j + 4 ELSE 0

\* <\?xml\s+version=(?:"1\.0"|'1\.0') at position i; the position after it,
\* or 0.
VersionEnd(s, i) ==
  IF i > Len(s) \/ s[i] # XMLO THEN 0
  ELSE LET j == SkipSpace(s, i + 1)
       IN  IF /\ j > i + 1
              /\ j + 3 <= Len(s)
              /\ s[j] = VER
              /\ IsQuote(s[j + 1])
              /\ s[j + 2] = V10
              /\ s[j + 3] = s[j + 1]
           THEN j + 4 ELSE 0

MatchesAt(s, i) ==
  LET v == VersionEnd(s, i)
  IN  v # 0 /\ (EncCloses(s, v) # {} \/ TailMatches(s, v))

\* re.FindSubmatch: [found, enc], enc the bytes of capture group 1 with a
\* none flag for a group that took no part in the match.
FindSubmatch(s) ==
  LET starts == { i \in 1..Len(s) : MatchesAt(s, i) }
  IN  IF starts = {} THEN [found |-> FALSE, group |-> FALSE, enc |-> << >>]
      ELSE LET i == CHOOSE x \in starts : \A y \in starts : x <= y
               v == VersionEnd(s, i)
               ks == EncCloses(s, v)
           IN  IF ks = {}
               THEN [found |-> TRUE, group |-> FALSE, enc |-> << >>]
               ELSE LET k == CHOOSE x \in ks : \A y \in ks : x <= y
                        q == SkipSpace(s, v) + 1
                    IN  [found |-> TRUE, group |-> TRUE,
                         enc |-> SubSeq(s, q, k)]

\* TrimQuotes that removes the first and the last byte only.
TrimQuotesOnePair(b) ==
  IF Len(b) < 2 THEN << >> ELSE SubSeq(b, 2, Len(b) - 1)

\* bytes.Trim(b, `"'`)
RECURSIVE TrimQuotes(_)
TrimQuotes(b) ==
  IF b = << >> THEN b
  ELSE IF IsQuote(Head(b)) THEN TrimQuotes(Tail(b))
  ELSE IF IsQuote(b[Len(b)]) THEN TrimQuotes(SubSeq(b, 1, Len(b) - 1))
  ELSE b

NoErr == << >>
ErrMalformedHeader == <<"buffer does not have XML header, or header is malformed">>
ErrNoEncoding == <<"no encoding found">>

getEncodingName(data) ==
  LET trimmed(name) ==
        IF name = << >> THEN [name |-> << >>, err |-> ErrNoEncoding]
        ELSE [name |-> name, err |-> NoErr]
      matched(m) ==
        IF ~m.found THEN [name |-> << >>, err |-> ErrMalformedHeader]
        ELSE IF ~m.group THEN [name |-> <<UTF8U>>, err |-> NoErr]
        ELSE trimmed(TrimQuotes(m.enc))
  IN  matched(FindSubmatch(data))

----------------------------------------------------------------------------
(* convertToUTF8, cleanXMLv1, updateXMLv1HeaderToUTF8.                     *)

\* strings.ToLower, symbol by symbol.
LowerSym(c) == IF c = UTF8U THEN UTF8L ELSE IF c = LATINU THEN LATINL ELSE c

ToLower(name) == [i \in 1..Len(name) |-> LowerSym(name[i])]

\* charset.Lookup: labels are matched case-insensitively; "iso-8859-1" is a
\* label of windows-1252.
Lookup(name) ==
  IF ToLower(name) = <<UTF8L>> THEN "utf-8"
  ELSE IF ToLower(name) = <<LATINL>> THEN "windows-1252"
  ELSE "none"

\* One symbol through a decoder.  The UTF-8 decoder turns a byte that is
\* not UTF-8 into U+FFFD; windows-1252 reads every byte as one character.
DecodeSym(enc, c) ==
  IF enc = "utf-8" THEN (IF c = RAWE9 THEN REPL ELSE c)
  ELSE IF c = RAWE9 THEN EACUTE
  ELSE IF c > 127 THEN MOJI
  ELSE c

ErrEncodingNotFound == <<"encoding not found">>

convertToUTF8(data, encodingName) ==
  IF Lookup(encodingName) = "none"
  THEN [data |-> << >>, err |-> ErrEncodingNotFound]
  ELSE [data |-> [i \in 1..Len(data) |->
                    DecodeSym(Lookup(encodingName), data[i])],
        err |-> NoErr]

\* The rune that ranging over the string yields for a symbol.
RuneOf(c) == IF c = RAWE9 THEN REPL ELSE c

\* WriteRune that takes the private-use range up to U+FFFF.
WriteRuneUpToFFFF(r) ==
  IF r = REPL THEN FALSE
  ELSE IF r < 0 THEN TRUE
  ELSE \/ r = 9 \/ r = 10 \/ r = 13
       \/ (r >= 32 /\ r <= 55295)
       \/ (r >= 57344 /\ r <= 65535)
       \/ (r >= 65536 /\ r <= 1114111)

\* The test of cleanXMLv1 on one rune; a negative symbol is a run of
\* printable ASCII.
WriteRune(r) ==
  IF r = REPL THEN FALSE
  ELSE IF r < 0 THEN TRUE
  ELSE \/ r = 9 \/ r = 10 \/ r = 13
       \/ (r >= 32 /\ r <= 55295)
       \/ (r >= 57344 /\ r <= 65533)
       \/ (r >= 65536 /\ r <= 1114111)

\* cleanXMLv1 that leaves the loop at the first rune it does not write.
RECURSIVE cleanXMLv1StopAtInvalid(_)
cleanXMLv1StopAtInvalid(data) ==
  IF data = << >> THEN << >>
  ELSE IF WriteRune(RuneOf(Head(data)))
       THEN <<RuneOf(Head(data))>> \o cleanXMLv1StopAtInvalid(Tail(data))
       ELSE << >>

\* cleanXMLv1 that writes U+FFFD in the place of a rune it logs.
RECURSIVE cleanXMLv1ReplacesInvalid(_)
cleanXMLv1ReplacesInvalid(data) ==
  IF data = << >> THEN << >>
  ELSE IF WriteRune(RuneOf(Head(data)))
       THEN <<RuneOf(Head(data))>> \o cleanXMLv1ReplacesInvalid(Tail(data))
       ELSE IF RuneOf(Head(data)) = REPL
            THEN cleanXMLv1ReplacesInvalid(Tail(data))
            ELSE <<REPL>> \o cleanXMLv1ReplacesInvalid(Tail(data))

RECURSIVE cleanXMLv1(_)
cleanXMLv1(data) ==
  IF data = << >> THEN << >>
  ELSE IF WriteRune(RuneOf(Head(data)))
       THEN <<RuneOf(Head(data))>> \o cleanXMLv1(Tail(data))
       ELSE cleanXMLv1(Tail(data))

\* The runes cleanXMLv1 logs when config.Verbose is set.
SkippedRunes(data) ==
  SelectSeq(data, LAMBDA c : RuneOf(c) # REPL /\ ~WriteRune(RuneOf(c)))

\* cleanXMLv1 on the text of an element, on the texts of the model: the
\* text without its U+FFFD.
CleanText(str) ==
  IF str = "bell[U+FFFD]" THEN "bell"
  ELSE IF str = "mark[U+FFFD]" THEN "mark"
  ELSE str

\* The document element of the cleaned buffer: cleanXMLv1 runs over the
\* text of the document element as over the rest of the buffer.
cleanedDoc(doc) ==
  [doc EXCEPT
     !.title = CleanText(@),
     !.desc = CleanText(@),
     !.date = CleanText(@),
     !.textLinks = [i \in 1..Len(@) |-> CleanText(@[i])],
     !.items = [i \in 1..Len(@) |->
                  [@[i] EXCEPT !.title = CleanText(@), !.link = CleanText(@),
                               !.desc = CleanText(@), !.date = CleanText(@),
                               !.id = CleanText(@)]]]

newHeader == <<XMLO, SP, VER, DQ, V10, DQ, SP, ENC, DQ, UTF8U, DQ, PE>>

ErrNoHeaderEnd == <<"could not find end of XML header">>
ErrEndsWithHeader == <<"document ends with XML header">>

\* updateXMLv1HeaderToUTF8 that takes the last "?>" for the end of the
\* header.
updateXMLv1HeaderAtLastEnd(data) ==
  LET ends == { i \in 1..Len(data) : data[i] = PE }
      endPos == IF ends = {} THEN 0
                ELSE CHOOSE i \in ends : \A j \in ends : j <= i
  IN  IF endPos = 0 THEN [data |-> << >>, err |-> ErrNoHeaderEnd]
      ELSE IF endPos >= Len(data)
           THEN [data |-> << >>, err |-> ErrEndsWithHeader]
      ELSE [data |-> newHeader \o Drop(data, endPos), err |-> NoErr]

\* updateXMLv1HeaderToUTF8 without the test for a document that ends with
\* its header.
updateXMLv1HeaderAnyBody(data) ==
  LET endPos == IndexFrom(data, PE, 1)
  IN  IF endPos = 0 THEN [data |-> << >>, err |-> ErrNoHeaderEnd]
      ELSE [data |-> newHeader \o Drop(data, endPos), err |-> NoErr]

updateXMLv1HeaderToUTF8(data) ==
  LET endPos == IndexFrom(data, PE, 1)
  IN  IF endPos = 0 THEN [data |-> << >>, err |-> ErrNoHeaderEnd]
      ELSE IF endPos >= Len(data)
           THEN [data |-> << >>, err |-> ErrEndsWithHeader]
      ELSE [data |-> newHeader \o Drop(data, endPos), err |-> NoErr]

\* The literal the lower-cased encoding name is compared with.
UTF8Literal == <<UTF8U>>

\* decodeToUTF8AndClean: [data, err, rewrite, skipped], rewrite telling
\* whether updateXMLv1HeaderToUTF8 was called and skipped the runes
\* cleanXMLv1 reports.  The steps are written in the order of the code,
\* each one taking the values the steps before it produced.
decodeToUTF8AndClean(data) ==
  LET failed(err, rw, sk) ==
        [data |-> << >>, err |-> err, rewrite |-> rw, skipped |-> sk]
      rewritten(h, sk) ==
        IF h.err # NoErr THEN failed(h.err, TRUE, sk)
        ELSE [data |-> h.data, err |-> NoErr, rewrite |-> TRUE,
              skipped |-> sk]
      cleaned(name, c, sk) ==
        IF ToLower(name) = UTF8Literal
        THEN [data |-> c, err |-> NoErr, rewrite |-> FALSE, skipped |-> sk]
        ELSE rewritten(updateXMLv1HeaderToUTF8(c), sk)
      converted(name, u) ==
        IF u.err # NoErr THEN failed(u.err, FALSE, << >>)
        ELSE cleaned(name, cleanXMLv1(u.data), SkippedRunes(u.data))
      named(e) ==
        IF e.err # NoErr THEN failed(e.err, FALSE, << >>)
        ELSE converted(e.name, convertToUTF8(data, e.name))
  IN  named(getEncodingName(data))


----------------------------------------------------------------------------
(* parseTime.  A time.Time is [sec, off, loc]: the instant in seconds      *)
(* since 1970, the zone offset in minutes and the location.                *)

\* The instant of time.Time{} (January 1, year 1 UTC), as a number that
\* lies below every other instant of the model.
ZeroSec == 0 - 2000000000

ZeroTime == [sec |-> ZeroSec, off |-> 0, loc |-> "UTC"]

\* time.Now() when the wall clock reads now.
TimeNow(now) == [sec |-> now, off |-> 0, loc |-> "Local"]

\* TrimSpace that leaves the string as it is.
TrimSpaceNone(str) == str

\* strings.TrimSpace on the date strings of the model.
TrimSpace(str) ==
  IF str = " Sat, 29 Jun 2013 18:20:00 GMT " THEN "Sat, 29 Jun 2013 18:20:00 GMT"
  ELSE IF str = "  " THEN ""
  ELSE str

\* The layouts in the order parseTime tries them.
Layouts == <<"RFC1123", "RFC1123Z", "RFC3339", "layout0", "layout1",
             "layout2", "layout3", "layout4", "yarchive">>

\* time.Parse(layout, str) on the date strings of the model.
TimeParse(layout, str) ==
  IF layout = "RFC1123" /\ str = "Sat, 29 Jun 2013 18:20:00 GMT"
  THEN [ok |-> TRUE, t |-> [sec |-> 1372530000, off |-> 0, loc |-> "UTC"]]
  ELSE IF layout = "RFC1123" /\ str = "Sat, 29 Jun 2013 18:20:00 PST"
  \* a zone abbreviation the process does not know: a fabricated location
  \* of that name with offset zero
  THEN [ok |-> TRUE, t |-> [sec |-> 1372530000, off |-> 0, loc |-> "PST"]]
  ELSE IF layout = "RFC1123Z" /\ str = "Mon, 08 Apr 2019 10:20:30 -0700"
  THEN [ok |-> TRUE, t |-> [sec |-> 1554744030, off |-> 0 - 420, loc |-> "fixed"]]
  ELSE IF layout = "RFC1123Z" /\ str = "Sun, 25 Dec 2016 11:00:00 +0000"
  THEN [ok |-> TRUE, t |-> [sec |-> 1482663600, off |-> 0, loc |-> "UTC"]]
  ELSE IF layout = "RFC3339" /\ str = "2017-01-17T21:30:14+00:00"
  THEN [ok |-> TRUE, t |-> [sec |-> 1484688614, off |-> 0, loc |-> "UTC"]]
  ELSE IF layout = "layout0" /\ str = "Wednesday, October 28, 2015, 15:24 -0700"
  THEN [ok |-> TRUE, t |-> [sec |-> 1446071040, off |-> 0 - 420, loc |-> "fixed"]]
  ELSE IF layout = "layout1" /\ str = "Sat, May 7 2011 12:56:00 +0000"
  THEN [ok |-> TRUE, t |-> [sec |-> 1304772960, off |-> 0, loc |-> "UTC"]]
  ELSE IF layout = "layout2" /\ str = "Tuesday, August 14, 2012 20:45 +0000"
  THEN [ok |-> TRUE, t |-> [sec |-> 1344977100, off |-> 0, loc |-> "UTC"]]
  ELSE IF layout = "layout3" /\ str = "Monday, September 5 2011 13:54:00 +0000"
  THEN [ok |-> TRUE, t |-> [sec |-> 1315230840, off |-> 0, loc |-> "UTC"]]
  ELSE IF layout = "layout4" /\ str = "Wed, July 18 2011 09:59:00 +0000"
  THEN [ok |-> TRUE, t |-> [sec |-> 1310983140, off |-> 0, loc |-> "UTC"]]
  ELSE IF layout = "layout4" /\ str = "Sat, May 7 2011 12:56:00 +0000"
  THEN [ok |-> TRUE, t |-> [sec |-> 1304772960, off |-> 0, loc |-> "UTC"]]
  ELSE IF layout = "RFC1123Z" /\ str = "Mon, 01 Jan 0001 00:00:00 +0000"
  THEN [ok |-> TRUE, t |-> ZeroTime]
  ELSE IF layout = "yarchive" /\ str = "Sun, 09 Apr 2017 05:06 GMT"
  THEN [ok |-> TRUE, t |-> [sec |-> 1491714360, off |-> 0, loc |-> "UTC"]]
  ELSE [ok |-> FALSE, t |-> ZeroTime]

\* FirstLayout that gives up before the last layout.
RECURSIVE FirstLayoutButLast(_, _)
FirstLayoutButLast(str, i) ==
  IF i >= Len(Layouts) THEN 0
  ELSE IF TimeParse(Layouts[i], str).ok THEN i
  ELSE FirstLayoutButLast(str, i + 1)

\* The first layout from i on that parses str, or 0.
RECURSIVE FirstLayout(_, _)
FirstLayout(str, i) ==
  IF i > Len(Layouts) THEN 0
  ELSE IF TimeParse(Layouts[i], str).ok THEN i
  ELSE FirstLayout(str, i + 1)

LogNoDate == "No publication date on channel/item. Defaulting to now."
LogNoFormat == "No format worked for date. Defaulting to now."

\* The instant parseTime falls back to.
FallbackTime(now) == TimeNow(now)

\* parseTime that returns the current time for a missing date only when it
\* reports it.
parseTimeNowWhenVerbose(pubDate, now, verb) ==
  IF pubDate = ""
  THEN [t |-> IF verb THEN FallbackTime(now) ELSE ZeroTime,
        log |-> IF verb THEN <<LogNoDate>> ELSE << >>]
  ELSE LET i == FirstLayout(TrimSpace(pubDate), 1)
       IN  IF i # 0
           THEN [t |-> TimeParse(Layouts[i], TrimSpace(pubDate)).t,
                 log |-> << >>]
           ELSE [t |-> FallbackTime(now), log |-> <<LogNoFormat>>]

\* parseTime: [t, log], log the messages it writes.
parseTime(pubDate, now, verb) ==
  IF pubDate = ""
  THEN [t |-> FallbackTime(now),
        log |-> IF verb THEN <<LogNoDate>> ELSE << >>]
  ELSE LET i == FirstLayout(TrimSpace(pubDate), 1)
       IN  IF i # 0
           THEN [t |-> TimeParse(Layouts[i], TrimSpace(pubDate)).t,
                 log |-> << >>]
           ELSE [t |-> FallbackTime(now), log |-> <<LogNoFormat>>]


----------------------------------------------------------------------------
(* The document element and xml.Unmarshal.                                 *)
(*                                                                         *)
(* The ROOT symbol of a buffer stands for the text of the element doc:     *)
(*   wf          its text is well-formed XML                               *)
(*   space,local the name of the root element                              *)
(*   shape       "rss":  root > channel > title link* description pubDate  *)
(*                       item*                                             *)
(*               "rdf":  root > channel > title link* description date,    *)
(*                       root > item*                                      *)
(*               "atom": root > title link* updated entry*                 *)
(*   title, desc, date, textLinks, atomLinks, items: the content           *)
(* and an item is [title, link, atomLinks, desc, date, id].                *)

AtomNS == "http://www.w3.org/2005/Atom"
RdfNS == "http://www.w3.org/1999/02/22-rdf-syntax-ns#"

\* strings.ToLower on the element names of the model.
LowerName(n) ==
  IF n = "RSS" THEN "rss" ELSE IF n = "RDF" THEN "rdf"
  ELSE IF n = "FEED" THEN "feed" ELSE n

\* Decoder.procInst: the value of parameter param in the text of a
\* processing instruction, << >> when absent or not quoted.
procInst(param, content) ==
  LET idx == IndexFrom(content, param, 1)
  IN  IF idx = 0 \/ idx = Len(content) THEN << >>
      ELSE IF ~IsQuote(content[idx + 1]) THEN << >>
      ELSE LET e == IndexFrom(content, content[idx + 1], idx + 2)
           IN  IF e = 0 THEN << >> ELSE SubSeq(content, idx + 2, e - 1)

\* The error of reading tokens from position i up to the start of the
\* document element, "" for none.  The Decoder has no CharsetReader.
RECURSIVE TokenErr(_, _, _)
TokenErr(buf, doc, i) ==
  IF i > Len(buf) THEN "EOF"
  ELSE IF buf[i] = ROOT
       THEN (IF doc.wf THEN "" ELSE "XML syntax error")
  ELSE IF buf[i] \in {XMLO, PIO}
       THEN LET e == IndexFrom(buf, PE, i + 1)
                content == SubSeq(buf, i + 1, e - 1)
                isXML == buf[i] = XMLO /\ (e = i + 1 \/ IsSpace(buf[i + 1]))
                ver == procInst(VER, content)
                enc == procInst(ENC, content)
            IN  IF e = 0 THEN "XML syntax error: unexpected EOF"
                ELSE IF isXML /\ ver # << >> /\ ver # <<V10>>
                     THEN "xml: unsupported version"
                ELSE IF isXML /\ enc # << >> /\ ToLower(enc) # <<UTF8L>>
                     THEN "xml: encoding declared but Decoder.CharsetReader is nil"
                ELSE TokenErr(buf, doc, e + 1)
  ELSE TokenErr(buf, doc, i + 1)

\* The character data the Decoder yields for the text of an element, on
\* the texts of the model: entities are replaced by their characters.
UnescapeText(str) ==
  IF str = "Q&amp;A &lt;1&gt;" THEN "Q&A <1>" ELSE str

\* UnmarshalItem with a field tag that names no element of the item: the
\* identifier stays empty.
UnmarshalItemNoID(it) ==
  [it EXCEPT !.title = UnescapeText(@), !.link = UnescapeText(@),
             !.desc = UnescapeText(@), !.date = UnescapeText(@),
             !.id = ""]

\* The fields xml.Unmarshal stores for one item or entry element.
UnmarshalItem(it) ==
  [it EXCEPT !.title = UnescapeText(@), !.link = UnescapeText(@),
             !.desc = UnescapeText(@), !.date = UnescapeText(@),
             !.id = UnescapeText(@)]

\* UnmarshalItems that puts each element in front of the ones before it.
UnmarshalItemsReversed(items) ==
  [i \in 1..Len(items) |-> UnmarshalItem(items[Len(items) + 1 - i])]

\* The items xml.Unmarshal appends, one for each element, in their order.
UnmarshalItems(items) == [i \in 1..Len(items) |-> UnmarshalItem(items[i])]

\* The fields xml.Unmarshal stores in a rssXML.
UnmarshalRSS(doc) ==
  [Local |-> doc.local,
   Title |-> IF doc.shape \in {"rss", "rdf"}
             THEN UnescapeText(doc.title) ELSE "",
   Link |-> IF doc.shape \in {"rss", "rdf"} /\ doc.textLinks # << >>
            THEN UnescapeText(doc.textLinks[Len(doc.textLinks)]) ELSE "",
   Description |-> IF doc.shape \in {"rss", "rdf"}
                   THEN UnescapeText(doc.desc) ELSE "",
   PubDate |-> IF doc.shape = "rss" THEN UnescapeText(doc.date) ELSE "",
   Items |-> IF doc.shape = "rss" THEN UnmarshalItems(doc.items) ELSE << >>]

\* The fields xml.Unmarshal stores in a rdfXML.
UnmarshalRDF(doc) ==
  [Local |-> doc.local,
   Title |-> IF doc.shape \in {"rss", "rdf"}
             THEN UnescapeText(doc.title) ELSE "",
   Links |-> IF doc.shape \in {"rss", "rdf"}
             THEN [i \in 1..Len(doc.textLinks) |->
                     UnescapeText(doc.textLinks[i])]
             ELSE << >>,
   Description |-> IF doc.shape \in {"rss", "rdf"}
                   THEN UnescapeText(doc.desc) ELSE "",
   PubDate |-> IF doc.shape = "rdf" THEN UnescapeText(doc.date) ELSE "",
   RDFItems |-> IF doc.shape = "rdf" THEN UnmarshalItems(doc.items)
                ELSE << >>]

\* AtomRootOK that looks at the namespace of the root only.
AtomRootAnyName(doc) == doc.space = AtomNS

\* The XMLName tag of atomXML: the root must be this element.
AtomRootOK(doc) == doc.local = "feed" /\ doc.space = AtomNS

\* The fields xml.Unmarshal stores in an atomXML.
UnmarshalAtom(doc) ==
  [Title |-> IF doc.shape = "atom" THEN UnescapeText(doc.title) ELSE "",
   Links |-> IF doc.shape = "atom" THEN doc.atomLinks ELSE << >>,
   Updated |-> IF doc.shape = "atom" THEN UnescapeText(doc.date) ELSE "",
   Items |-> IF doc.shape = "atom" THEN UnmarshalItems(doc.items) ELSE << >>]


----------------------------------------------------------------------------
(* parseAsRSS, parseAsRDF, parseAsAtom: [feed, err, log].                  *)

NilFeed == [Title |-> "", Link |-> "", Description |-> "",
            PubDate |-> ZeroTime, Items |-> << >>, Type |-> ""]

\* Concatenation of the message lists parseTime writes for the items.
RECURSIVE ItemLogs(_, _, _)
ItemLogs(items, now, verb) ==
  IF items = << >> THEN << >>
  ELSE parseTime(Head(items).date, now, verb).log
         \o ItemLogs(Tail(items), now, verb)

\* RSSGate that takes any root element.
RSSGateOpen(local) == TRUE

\* The root element name parseAsRSS accepts.
RSSGate(local) == LowerName(local) = "rss"

\* The root element name parseAsRDF accepts.
RDFGate(local) == LowerName(local) = "rdf"

parseAsRSS(data, doc, now, verb) ==
  LET x == UnmarshalRSS(doc)
  IN  IF TokenErr(data, doc, 1) # ""
      THEN [feed |-> NilFeed,
            err |-> <<"RSS XML decode error", TokenErr(data, doc, 1)>>,
            log |-> << >>]
      ELSE IF ~RSSGate(x.Local)
      THEN [feed |-> NilFeed, err |-> <<"base tag is not RSS">>,
            log |-> << >>]
      ELSE [feed |-> [Title |-> x.Title,
                      Link |-> x.Link,
                      Description |-> x.Description,
                      PubDate |-> parseTime(x.PubDate, now, verb).t,
                      Items |-> [i \in 1..Len(x.Items) |->
                         [Title |-> x.Items[i].title,
                          Link |-> x.Items[i].link,
                          Description |-> x.Items[i].desc,
                          PubDate |-> parseTime(x.Items[i].date, now, verb).t,
                          GUID |-> x.Items[i].id]],
                      Type |-> "RSS"],
            err |-> NoErr,
            log |-> parseTime(x.PubDate, now, verb).log
                      \o (IF verb THEN <<"Parsed channel as RSS">> ELSE << >>)
                      \o ItemLogs(x.Items, now, verb)]

\* RDFFeedLink that takes the last link element.
RDFFeedLinkLast(links) ==
  IF Len(links) > 0 THEN links[Len(links)] ELSE ""

\* The link parseAsRDF gives the feed: the first of the channel, if any.
RDFFeedLink(links) ==
  IF Len(links) > 0 THEN links[1] ELSE ""

parseAsRDF(data, doc, now, verb) ==
  LET x == UnmarshalRDF(doc)
  IN  IF TokenErr(data, doc, 1) # ""
      THEN [feed |-> NilFeed,
            err |-> <<"RDF XML decode error", TokenErr(data, doc, 1)>>,
            log |-> << >>]
      ELSE IF ~RDFGate(x.Local)
      THEN [feed |-> NilFeed, err |-> <<"base tag is not RDF">>,
            log |-> << >>]
      ELSE [feed |-> [Title |-> x.Title,
                      Link |-> RDFFeedLink(x.Links),
                      Description |-> x.Description,
                      PubDate |-> parseTime(x.PubDate, now, verb).t,
                      Items |-> [i \in 1..Len(x.RDFItems) |->
                         [Title |-> x.RDFItems[i].title,
                          Link |-> x.RDFItems[i].link,
                          Description |-> x.RDFItems[i].desc,
                          PubDate |-> parseTime(x.RDFItems[i].date, now, verb).t,
                          GUID |-> ""]],
                      Type |-> "RDF"],
            err |-> NoErr,
            log |-> parseTime(x.PubDate, now, verb).log
                      \o (IF verb THEN <<"Parsed channel as RDF">> ELSE << >>)
                      \o ItemLogs(x.RDFItems, now, verb)]

\* AtomFeedLink that falls back to the first link.
AtomFeedLinkOrFirst(links) ==
  IF \E i \in 1..Len(links) : links[i].rel = "self"
  THEN links[CHOOSE i \in 1..Len(links) :
               /\ links[i].rel = "self"
               /\ \A j \in 1..(i - 1) : links[j].rel # "self"].href
  ELSE IF Len(links) > 0 THEN links[1].href ELSE ""

\* The feed link of parseAsAtom: the href of the first link with rel="self".
RECURSIVE AtomFeedLink(_)
AtomFeedLink(links) ==
  IF links = << >> THEN ""
  ELSE IF Head(links).rel # "self" THEN AtomFeedLink(Tail(links))
  ELSE Head(links).href

\* AtomItemLink that prefers a link with rel="self".
AtomItemLinkSelfFirst(links) == AtomFeedLinkOrFirst(links)

\* The link of an item of parseAsAtom: the href of its first link.
AtomItemLink(links) == IF Len(links) > 0 THEN links[1].href ELSE ""

parseAsAtom(data, doc, now, verb) ==
  LET x == UnmarshalAtom(doc)
  IN  IF TokenErr(data, doc, 1) # ""
      THEN [feed |-> NilFeed,
            err |-> <<"Atom XML decode error", TokenErr(data, doc, 1)>>,
            log |-> << >>]
      ELSE IF ~AtomRootOK(doc)
      THEN [feed |-> NilFeed,
            err |-> <<"Atom XML decode error",
                      "expected element type <feed>">>,
            log |-> << >>]
      ELSE [feed |-> [Title |-> x.Title,
                      Link |-> AtomFeedLink(x.Links),
                      Description |-> "",
                      PubDate |-> parseTime(x.Updated, now, verb).t,
                      Items |-> [i \in 1..Len(x.Items) |->
                         [Title |-> x.Items[i].title,
                          Link |-> AtomItemLink(x.Items[i].atomLinks),
                          Description |-> x.Items[i].desc,
                          PubDate |-> parseTime(x.Items[i].date, now, verb).t,
                          GUID |-> x.Items[i].id]],
                      Type |-> "Atom"],
            err |-> NoErr,
            log |-> parseTime(x.Updated, now, verb).log
                      \o (IF verb THEN <<"Parsed channel as Atom">> ELSE << >>)
                      \o ItemLogs(x.Items, now, verb)]


----------------------------------------------------------------------------
(* makeXML.  A Feed is [Title, Link, Description, PubDate, Items, Type],   *)
(* an Item [Title, Link, Description, PubDate, GUID]; a time.Time a caller *)
(* passes in has a nsec field for the nanoseconds within its second.       *)

\* An instant of the year 10000, as a number that lies above every other
\* instant of the model.
FarSec == 2000000000

\* t.Format(time.RFC1123Z) on the times of the model: the seconds and the
\* numeric offset are written, the nanoseconds are not, and the year takes
\* as many digits as it has.
FormatRFC1123Z(t) ==
  IF t.sec = 1482663600 /\ t.off = 0 THEN "Sun, 25 Dec 2016 11:00:00 +0000"
  ELSE IF t.sec = 1554744030 /\ t.off = 0 - 420
  THEN "Mon, 08 Apr 2019 10:20:30 -0700"
  ELSE IF t.sec = ZeroSec /\ t.off = 0 THEN "Mon, 01 Jan 0001 00:00:00 +0000"
  ELSE IF t.sec = FarSec /\ t.off = 0 THEN "Sat, 01 Jan 10000 00:00:00 +0000"
  ELSE "Thu, 01 Jan 1970 00:00:00 +0000"   \* the instant 0; no feed has it

\* xml.EscapeText on the texts of the model: markup characters become
\* entities, a character outside the XML character range becomes U+FFFD.
EscapeText(str) ==
  IF str = "Q&A <1>" THEN "Q&amp;A &lt;1&gt;"
  ELSE IF str = "bell[U+0007]" THEN "bell[U+FFFD]"
  ELSE str

\* outItemXML that writes the GUID of the Item.
outItemXMLKeepsGUID(item) ==
  [Title |-> item.Title,
   Link |-> item.Link,
   Description |-> item.Description,
   PubDate |-> FormatRFC1123Z(item.PubDate),
   GUID |-> item.GUID]

\* The outItemXML the loop appends for one Item.
outItemXML(item) ==
  [Title |-> item.Title,
   Link |-> item.Link,
   Description |-> item.Description,
   PubDate |-> FormatRFC1123Z(item.PubDate),
   GUID |-> item.Link]

\* outXML that leaves LastBuildDate unset.
outXMLNoBuildDate(feed) ==
  [Version |-> "2.0",
   Channel |->
     [Title |-> feed.Title,
      Link |-> feed.Link,
      Description |-> feed.Description,
      PubDate |-> FormatRFC1123Z(feed.PubDate),
      LastBuildDate |-> "",
      Items |-> [i \in 1..Len(feed.Items) |-> outItemXML(feed.Items[i])]]]

\* out := outXML{...} with the items the loop appends.
outXML(feed) ==
  [Version |-> "2.0",
   Channel |->
     [Title |-> feed.Title,
      Link |-> feed.Link,
      Description |-> feed.Description,
      PubDate |-> FormatRFC1123Z(feed.PubDate),
      LastBuildDate |-> FormatRFC1123Z(feed.PubDate),
      Items |-> [i \in 1..Len(feed.Items) |-> outItemXML(feed.Items[i])]]]

\* xml.MarshalIndent(out, "", "  "): the rss element it writes, as a
\* document element; the text ends with the end tag of the element.
MarshalIndent(out) ==
  [wf |-> TRUE, space |-> "", local |-> "rss", shape |-> "rss",
   version |-> out.Version,
   title |-> EscapeText(out.Channel.Title),
   desc |-> EscapeText(out.Channel.Description),
   date |-> EscapeText(out.Channel.PubDate),
   lastBuildDate |-> EscapeText(out.Channel.LastBuildDate),
   textLinks |-> <<EscapeText(out.Channel.Link)>>,
   atomLinks |-> << >>,
   items |-> [i \in 1..Len(out.Channel.Items) |->
                [title |-> EscapeText(out.Channel.Items[i].Title),
                 link |-> EscapeText(out.Channel.Items[i].Link),
                 atomLinks |-> << >>,
                 desc |-> EscapeText(out.Channel.Items[i].Description),
                 date |-> EscapeText(out.Channel.Items[i].PubDate),
                 id |-> EscapeText(out.Channel.Items[i].GUID)]]]

\* xmlHeader left out of the document.
xmlHeaderMissing == << >>

\* xml.Header
xmlHeader == <<XMLO, SP, VER, DQ, V10, DQ, SP, ENC, DQ, UTF8U, DQ, PE, LF>>

\* makeXML: [data, doc], the bytes and the document element the ROOT
\* symbol of the bytes stands for.
makeXML(feed) ==
  [data |-> xmlHeader \o <<ROOT>>, doc |-> MarshalIndent(outXML(feed))]

----------------------------------------------------------------------------
(* The inputs: the buffers and documents ParseFeedXML is called on.        *)

MaxLinks == 2       \* link elements of a feed or of an entry
MaxItems == 2       \* item / entry elements of a document
MaxTicks == 1       \* times the wall clock advances
MaxCalls == 2       \* calls of ParseFeedXML in one run

\* The wall clock at the start (2020-09-13T12:26:40Z).
NowBase == 1600000000

SeqsUpTo(S, n) == UNION { [1..k -> S] : k \in 0..n }

Reverse(q) == [i \in 1..Len(q) |-> q[Len(q) + 1 - i]]

LinkRecs == { [href |-> "http://example.com/atom.xml", rel |-> "self"],
              [href |-> "http://example.com/", rel |-> ""],
              [href |-> "http://example.com/alt", rel |-> "alternate"],
              [href |-> "http://example.com/self2", rel |-> "self"] }

LinkSeqs == SeqsUpTo(LinkRecs, MaxLinks)

DefaultLinks == << [href |-> "http://example.com/atom.xml", rel |-> "self"] >>

Dates == { "", "  ", "junk",
           "Sat, 29 Jun 2013 18:20:00 GMT",
           " Sat, 29 Jun 2013 18:20:00 GMT ",
           "Sat, 29 Jun 2013 18:20:00 PST",
           "Mon, 08 Apr 2019 10:20:30 -0700",
           "Sun, 25 Dec 2016 11:00:00 +0000",
           "2017-01-17T21:30:14+00:00",
           "Wednesday, October 28, 2015, 15:24 -0700",
           "Sat, May 7 2011 12:56:00 +0000",
           "Tuesday, August 14, 2012 20:45 +0000",
           "Monday, September 5 2011 13:54:00 +0000",
           "Wed, July 18 2011 09:59:00 +0000",
           "Sun, 09 Apr 2017 05:06 GMT" }

DefaultDate == "Sat, 29 Jun 2013 18:20:00 GMT"

ItemNames == <<"item 1", "item 2", "item 3", "item 4", "item 5">>
ItemURLs == <<"http://example.com/1", "http://example.com/2",
              "http://example.com/3", "http://example.com/4",
              "http://example.com/5">>
ItemIDs == <<"id-1", "id-2", "id-3", "id-4", "id-5">>

\* The i-th item of a document whose first item has links al and date d.
MkItem(i, al, d) ==
  [title |-> ItemNames[i],
   link |-> ItemURLs[i],
   atomLinks |-> IF i % 2 = 1 THEN al ELSE Reverse(al),
   desc |-> "text",
   date |-> IF i = 1 THEN d ELSE IF i = 2 THEN "" ELSE "junk",
   id |-> ItemIDs[i]]

Hrefs(al) == [i \in 1..Len(al) |-> al[i].href]

\* The names, namespaces and shapes of the root elements.
Roots == { [space |-> "", local |-> "rss", shape |-> "rss"],
           [space |-> "", local |-> "RSS", shape |-> "rss"],
           [space |-> RdfNS, local |-> "RDF", shape |-> "rdf"],
           [space |-> RdfNS, local |-> "rdf", shape |-> "rdf"],
           [space |-> AtomNS, local |-> "feed", shape |-> "atom"],
           [space |-> "", local |-> "feed", shape |-> "atom"],
           [space |-> AtomNS, local |-> "FEED", shape |-> "atom"],
           [space |-> "", local |-> "html", shape |-> "rss"],
           [space |-> AtomNS, local |-> "rss", shape |-> "atom"],
           [space |-> "", local |-> "rdf", shape |-> "rss"] }

MkDoc(r, wf, al, n, d) ==
  [wf |-> wf, space |-> r.space, local |-> r.local, shape |-> r.shape,
   title |-> "A Nice Site", desc |-> "A Nice Website", date |-> d,
   textLinks |-> Hrefs(al), atomLinks |-> al,
   items |-> [i \in 1..n |-> MkItem(i, al, d)]]

RSSRoot == [space |-> "", local |-> "rss", shape |-> "rss"]
RDFRoot == [space |-> RdfNS, local |-> "RDF", shape |-> "rdf"]
AtomRoot == [space |-> AtomNS, local |-> "feed", shape |-> "atom"]
HTMLRoot == [space |-> "", local |-> "html", shape |-> "rss"]

\* Documents that differ in their links.
LinkDocs == { MkDoc(AtomRoot, TRUE, al, n, DefaultDate) :
                al \in LinkSeqs, n \in 0..MaxItems }
            \cup { MkDoc(RDFRoot, TRUE, al, 1, DefaultDate) : al \in LinkSeqs }

\* Documents that differ in their dates.
DateDocs == { MkDoc(r, TRUE, DefaultLinks, MaxItems, d) :
                r \in {RSSRoot, RDFRoot, AtomRoot}, d \in Dates }

\* Documents that differ in their root element.
RootDocs == { MkDoc(r, wf, DefaultLinks, 1, DefaultDate) :
                r \in Roots, wf \in BOOLEAN }

\* One document of each dialect and one of none.
BasicDocs == { MkDoc(r, TRUE, DefaultLinks, 1, DefaultDate) :
                 r \in {RSSRoot, RDFRoot, AtomRoot, HTMLRoot} }

\* XML declarations, well-formed and not.
Version(q) == <<XMLO, SP, VER, q, V10, q>>
Encoding(q, name) == <<SP, ENC, q, name, q>>

GoodProlog == Version(DQ) \o Encoding(DQ, UTF8U) \o <<PE>>
LatinProlog == Version(DQ) \o Encoding(DQ, LATINU) \o <<PE>>

Prologs ==
  { << >>,
    Version(DQ) \o <<PE>>,
    Version(DQ) \o <<SP, PE>>,
    Version(SQ) \o <<PE>>,
    GoodProlog,
    Version(DQ) \o Encoding(SQ, UTF8U) \o <<SP, PE>>,
    Version(DQ) \o Encoding(DQ, UTF8L) \o <<PE>>,
    LatinProlog,
    Version(DQ) \o Encoding(DQ, LATINL) \o <<SP, PE>>,
    Version(DQ) \o Encoding(DQ, BOGUS) \o <<PE>>,
    Version(DQ) \o Encoding(DQ, UTF8U) \o <<SP, SAL, DQ, YES, DQ, PE>>,
    Version(DQ) \o <<SP, SAL, SQ, NO, SQ, SP, PE>>,
    <<XMLO, SP, VER, DQ, V11, DQ, PE>>,
    <<XMLO, SP, VER, DQ, V11, DQ>> \o Encoding(DQ, UTF8U) \o <<PE>>,
    <<XMLO, SP, XERS, DQ, V10, DQ>> \o Encoding(DQ, UTF8U) \o <<PE>>,
    <<XMLO, VER, DQ, V10, DQ, PE>>,
    <<XMLO, SP, VER, DQ, V10, SQ, PE>>,
    <<XMLO, SP, VER>>,
    Version(DQ),
    Version(DQ) \o <<SP, ENC, UTF8U>>,
    Version(DQ) \o <<SP, ENC, UTF8U, SP, PE>>,
    Version(DQ) \o <<SP, ENC>>,
    Version(DQ) \o <<SP, ENC, SP, PE>>,
    Version(DQ) \o <<SP, ENC, DQ, UTF8U, SQ, SP, PE>>,
    Version(DQ) \o <<SP, ENC, DQ, UTF8U, SP, PE>>,
    Version(DQ) \o <<SP, ENC, DQ, DQ, SP, PE>>,
    Version(DQ) \o <<SP, ENC, SQ, SQ, PE>>,
    Version(DQ) \o <<SP, ENC, DQ, SQ, DQ, PE>>,
    <<PIO, SP, PE>> \o LatinProlog,
    <<PIO, SP, PE>> \o GoodProlog,
    <<XMLO, SP, VER, DQ, V11, DQ, PE, LF>> \o GoodProlog,
    Version(DQ) \o <<SP, ENC, UTF8U, PE, LF>> \o GoodProlog,
    Version(DQ) \o <<SP, ENC, DQ, UTF8U, SQ, PE, LF>> \o GoodProlog,
    Version(DQ) \o <<SP, ENC, DQ, DQ, PE, LF>> \o LatinProlog }

\* What follows the declaration.
Bodies == { <<LF, ROOT, LF>>, <<ROOT>>, << >>, <<LF>>,
            <<LF, VT, ROOT>>, <<RAWE9, LF, ROOT>>, <<REPL, ROOT, VT>>,
            <<LF, PIO, SP, PE, ROOT>> }

Inputs ==
  { [data |-> p \o <<LF, ROOT, LF>>,
     doc |-> MkDoc(RSSRoot, TRUE, DefaultLinks, 1, DefaultDate)] : p \in Prologs }
  \cup { [data |-> p \o b, doc |-> d] :
           p \in {<< >>, GoodProlog, LatinProlog}, b \in Bodies, d \in BasicDocs }
  \cup { [data |-> GoodProlog \o <<LF, ROOT, LF>>, doc |-> d] :
           d \in LinkDocs \cup RootDocs }
  \cup { [data |-> LatinProlog \o <<LF, ROOT, LF>>, doc |-> d] : d \in DateDocs }

\* The Feeds makeXML is called on.
FeedTexts == {"Test feed", "Q&A <1>", "bell[U+0007]", "mark[U+FFFD]", ""}

FeedTimes ==
  { [sec |-> 1482663600, nsec |-> 0, off |-> 0, loc |-> "UTC"],
    [sec |-> 1482663600, nsec |-> 500000000, off |-> 0, loc |-> "UTC"],
    [sec |-> 1554744030, nsec |-> 0, off |-> 0 - 420, loc |-> "fixed"],
    [sec |-> ZeroSec, nsec |-> 0, off |-> 0, loc |-> "UTC"],
    [sec |-> FarSec, nsec |-> 0, off |-> 0, loc |-> "UTC"] }

DefaultTime == [sec |-> 1482663600, nsec |-> 0, off |-> 0, loc |-> "UTC"]

\* The i-th Item of a Feed whose items have text x, time t and GUID g.
MkFeedItem(i, x, t, g) ==
  [Title |-> IF i = 1 THEN x ELSE ItemNames[i],
   Link |-> IF i = 2 THEN x ELSE ItemURLs[i],
   Description |-> IF i > 2 THEN x ELSE "Item is very nice",
   PubDate |-> IF i = 1 THEN t ELSE DefaultTime,
   GUID |-> g]

FeedGUIDs == {"", "id-1", "http://example.com/1"}

MkFeed(x, t, n, ix, it, g, ty) ==
  [Title |-> x, Link |-> "https://www.example.com/",
   Description |-> "A nice feed", PubDate |-> t,
   Items |-> [i \in 1..n |-> MkFeedItem(i, ix, it, g)],
   Type |-> ty]

Feeds ==
  { MkFeed(x, DefaultTime, 1, "Nice item", DefaultTime, "", "RSS") :
      x \in FeedTexts }
  \cup { MkFeed("Test feed", t, 1, "Nice item", DefaultTime, "", "RSS") :
           t \in FeedTimes }
  \cup { MkFeed("Test feed", DefaultTime, n, x, DefaultTime, "", "RSS") :
           n \in 0..MaxItems, x \in FeedTexts }
  \cup { MkFeed("Test feed", DefaultTime, MaxItems, "Nice item", t, g, ty) :
           t \in FeedTimes, g \in FeedGUIDs, ty \in {"", "Atom"} }

\* The buffers cleanXMLv1 is called on: code points on both sides of each
\* limit of its ranges, a byte that is not UTF-8 and a run of ASCII.
MaxLen == 3         \* symbols of such a buffer

CleanAlphabet == {0, TAB, VT, 31, SP, 55295, 57344, REPL, 65534, 65536,
                  RAWE9, ROOT}

CleanBuffers == SeqsUpTo(CleanAlphabet, MaxLen)

\* What the caller running next to makeXML parses.
CodecInputs ==
  { [data |-> GoodProlog \o <<LF, ROOT, LF>>,
     doc |-> MkDoc(r, TRUE, DefaultLinks, 1, DefaultDate)] :
       r \in {RDFRoot, HTMLRoot} }
  \cup { [data |-> GoodProlog \o <<LF>>,
          doc |-> MkDoc(RSSRoot, TRUE, DefaultLinks, 1, DefaultDate)] }

----------------------------------------------------------------------------
(* The state: one caller running ParseFeedXML on an input, one caller      *)
(* running makeXML on a Feed, the global configuration and the wall clock. *)

VARIABLES
  data,       \* the buffer passed to ParseFeedXML
  doc,        \* the document element the ROOT symbol of data stands for
  verbose,    \* config.Verbose
  clock,      \* the wall clock time.Now() reads
  pc,         \* where the running call is
  utf8Data,   \* the local utf8Data
  rewrote,    \* the call ran updateXMLv1HeaderToUTF8
  errs,       \* errRSS, errRDF, errAtom so far, by dialect
  attempts,   \* the dialects attempted so far, in order
  result,     \* what the call returned: [feed, err]
  log,        \* the messages the call wrote
  calls,      \* calls started
  prev,       \* what the previous call returned: [valid, feed, err]
  feed,       \* the Feed passed to makeXML
  epc,        \* where the call of makeXML is
  out,        \* the local out of makeXML
  xmlBody,    \* the local xmlBody of makeXML
  xmlDoc,     \* the local xmlDoc of makeXML, and what makeXML returned
  encodingName  \* the local encodingName of decodeToUTF8AndClean

vars == <<data, doc, verbose, clock, pc, utf8Data, rewrote, errs, attempts,
          result, log, calls, prev, feed, epc, out, xmlBody, xmlDoc,
          encodingName>>

\* The variables of the call of makeXML, and of the call of ParseFeedXML.
encVars == <<feed, epc, out, xmlBody, xmlDoc>>
decVars == <<data, doc, pc, utf8Data, rewrote, errs, attempts, result, log,
             calls, prev, encodingName>>

\* DialectOrder with the first two attempts exchanged.
DialectOrderRDFFirst == <<"RDF", "RSS", "Atom">>

\* The order in which ParseFeedXML attempts the dialects.
DialectOrder == <<"RSS", "RDF", "Atom">>

\* The position after dialect d: the next dialect, or the failure return.
AfterDialect(d) ==
  LET i == CHOOSE k \in 1..Len(DialectOrder) : DialectOrder[k] = d
  IN  IF i < Len(DialectOrder) THEN DialectOrder[i + 1] ELSE "fail"

NoErrs == [d \in {"RSS", "RDF", "Atom"} |-> NoErr]

NoResult == [feed |-> NilFeed, err |-> NoErr]

\* AggregateErr without the reasons of the attempts.
AggregateErrBare(e) == <<"unable to parse as RSS, RDF, or Atom">>

\* The error ParseFeedXML returns when no dialect parsed the buffer.
AggregateErr(e) ==
  <<"unable to parse as RSS, RDF, or Atom">> \o e["RSS"] \o e["RDF"] \o e["Atom"]

\* The locals of makeXML before they are assigned.
NoOut == [Version |-> "", Channel |-> << >>]
NoBody == << >>

Init ==
  /\ \E in \in Inputs : data = in.data /\ doc = in.doc
  /\ verbose = FALSE
  /\ clock = NowBase
  /\ pc = "idle"
  /\ utf8Data = << >>
  /\ rewrote = FALSE
  /\ errs = NoErrs
  /\ attempts = << >>
  /\ result = NoResult
  /\ log = << >>
  /\ calls = 0
  /\ prev = [valid |-> FALSE, feed |-> NilFeed, err |-> NoErr]
  /\ feed = NilFeed
  /\ epc = "idle"
  /\ out = NoOut
  /\ xmlBody = NoBody
  /\ xmlDoc = << >>
  /\ encodingName = << >>

\* A caller enters ParseFeedXML(data).
Call ==
  /\ pc \in {"idle", "done"}
  /\ calls < MaxCalls
  /\ calls' = calls + 1
  /\ prev' = IF pc = "done"
             THEN [valid |-> TRUE, feed |-> result.feed, err |-> result.err]
             ELSE prev
  /\ pc' = "decode"
  /\ utf8Data' = << >>
  /\ rewrote' = FALSE
  /\ errs' = NoErrs
  /\ attempts' = << >>
  /\ result' = NoResult
  /\ log' = << >>
  /\ encodingName' = << >>
  /\ UNCHANGED <<data, doc, verbose, clock>>
  /\ UNCHANGED encVars

\* utf8Data, err := decodeToUTF8AndClean(data), and the return on error.
Decode ==
  /\ pc = "decode"
  /\ LET returned(r) ==
           /\ rewrote' = r.rewrite
           /\ log' = IF verbose
                     THEN [i \in 1..Len(r.skipped) |-> "Skipping rune"]
                     ELSE << >>
           /\ IF r.err # NoErr
              THEN /\ result' = [feed |-> NilFeed, err |-> r.err]
                   /\ pc' = "done"
                   /\ utf8Data' = << >>
              ELSE /\ utf8Data' = r.data
                   /\ pc' = DialectOrder[1]
                   /\ UNCHANGED result
     IN  returned(decodeToUTF8AndClean(data))
  /\ encodingName' = getEncodingName(data).name
  /\ UNCHANGED <<data, doc, verbose, clock, errs, attempts, calls, prev>>
  /\ UNCHANGED encVars

\* One dialect attempt: return its feed, or keep its error and go on.
Try(d, r) ==
  /\ pc = d
  /\ attempts' = Append(attempts, d)
  /\ log' = log \o r.log
  /\ IF r.err = NoErr
     THEN /\ result' = [feed |-> r.feed, err |-> NoErr]
          /\ pc' = "done"
          /\ UNCHANGED errs
     ELSE /\ errs' = [errs EXCEPT ![d] = r.err]
          /\ pc' = AfterDialect(d)
          /\ UNCHANGED result
  /\ UNCHANGED <<data, doc, verbose, clock, utf8Data, rewrote, calls, prev,
                 encodingName>>
  /\ UNCHANGED encVars

TryRSS == Try("RSS", parseAsRSS(utf8Data, cleanedDoc(doc), clock, verbose))

TryRDF == Try("RDF", parseAsRDF(utf8Data, cleanedDoc(doc), clock, verbose))

TryAtom == Try("Atom", parseAsAtom(utf8Data, cleanedDoc(doc), clock, verbose))

\* No dialect parsed the buffer.
Fail ==
  /\ pc = "fail"
  /\ result' = [feed |-> NilFeed, err |-> AggregateErr(errs)]
  /\ pc' = "done"
  /\ UNCHANGED <<data, doc, verbose, clock, utf8Data, rewrote, errs,
                 attempts, log, calls, prev, encodingName>>
  /\ UNCHANGED encVars

\* SetVerbose(v), from any other goroutine.
SetVerbose ==
  /\ \E v \in BOOLEAN : v # verbose /\ verbose' = v
  /\ UNCHANGED <<data, doc, clock, pc, utf8Data, rewrote, errs, attempts,
                 result, log, calls, prev, encodingName>>
  /\ UNCHANGED encVars

\* Time passes.
Tick ==
  /\ clock < NowBase + MaxTicks
  /\ clock' = clock + 1
  /\ UNCHANGED <<data, doc, verbose, pc, utf8Data, rewrote, errs, attempts,
                 result, log, calls, prev, encodingName>>
  /\ UNCHANGED encVars

\* A caller enters makeXML(feed): out := outXML{...} and the loop over
\* feed.Items.
MakeXML ==
  /\ epc = "idle"
  /\ out' = outXML(feed)
  /\ epc' = "marshal"
  /\ UNCHANGED <<feed, xmlBody, xmlDoc, verbose, clock>>
  /\ UNCHANGED decVars

\* xmlBody, err := xml.MarshalIndent(out, "", "  ")
Marshal ==
  /\ epc = "marshal"
  /\ xmlBody' = MarshalIndent(out)
  /\ epc' = "assemble"
  /\ UNCHANGED <<feed, out, xmlDoc, verbose, clock>>
  /\ UNCHANGED decVars

\* Assemble that builds the document in the buffer the running call of
\* ParseFeedXML holds.
AssembleInSharedBuffer ==
  /\ epc = "assemble"
  /\ utf8Data' = xmlHeader \o <<ROOT>>
  /\ xmlDoc' = xmlHeader \o <<ROOT>>
  /\ epc' = "returned"
  /\ UNCHANGED <<feed, out, xmlBody, verbose, clock>>
  /\ UNCHANGED <<data, doc, pc, rewrote, errs, attempts, result, log, calls,
                 prev, encodingName>>

\* var xmlDoc []byte, the two loops that append xml.Header and xmlBody to
\* it, and the return.  The ROOT symbol stands for xmlBody.
Assemble ==
  /\ epc = "assemble"
  /\ xmlDoc' = xmlHeader \o <<ROOT>>
  /\ epc' = "returned"
  /\ UNCHANGED <<feed, out, xmlBody, verbose, clock>>
  /\ UNCHANGED decVars

\* A caller passes what makeXML returned to ParseFeedXML.
ParseEncoded ==
  /\ epc = "returned"
  /\ pc \in {"idle", "done"}
  /\ calls < MaxCalls
  /\ data # xmlDoc \/ doc # xmlBody
  /\ data' = xmlDoc
  /\ doc' = xmlBody
  /\ calls' = calls + 1
  /\ prev' = [valid |-> FALSE, feed |-> NilFeed, err |-> NoErr]
  /\ pc' = "decode"
  /\ utf8Data' = << >>
  /\ rewrote' = FALSE
  /\ errs' = NoErrs
  /\ attempts' = << >>
  /\ result' = NoResult
  /\ log' = << >>
  /\ encodingName' = << >>
  /\ UNCHANGED <<verbose, clock>>
  /\ UNCHANGED encVars

Next == Call \/ Decode \/ TryRSS \/ TryRDF \/ TryAtom \/ Fail
          \/ SetVerbose \/ Tick

Spec == Init /\ [][Next]_vars

\* A call of makeXML next to the calls of ParseFeedXML, which may be passed
\* what makeXML returned.
InitCodec ==
  /\ \E in \in CodecInputs : data = in.data /\ doc = in.doc
  /\ feed \in Feeds
  /\ verbose = FALSE
  /\ clock = NowBase
  /\ pc = "idle"
  /\ utf8Data = << >>
  /\ rewrote = FALSE
  /\ errs = NoErrs
  /\ attempts = << >>
  /\ result = NoResult
  /\ log = << >>
  /\ calls = 0
  /\ prev = [valid |-> FALSE, feed |-> NilFeed, err |-> NoErr]
  /\ epc = "idle"
  /\ out = NoOut
  /\ xmlBody = NoBody
  /\ xmlDoc = << >>
  /\ encodingName = << >>

NextCodec == MakeXML \/ Marshal \/ Assemble \/ ParseEncoded
               \/ Call \/ Decode \/ TryRSS \/ TryRDF \/ TryAtom \/ Fail
               \/ SetVerbose \/ Tick

SpecCodec == InitCodec /\ [][NextCodec]_vars

\* A caller runs cleanXMLv1(data); b.WriteRune on a bytes.Buffer returns no
\* error and the length of the rune, so the call returns b.Bytes(), nil.
CleanXML ==
  /\ pc = "clean"
  /\ utf8Data' = cleanXMLv1(data)
  /\ log' = IF verbose
            THEN [i \in 1..Len(SkippedRunes(data)) |-> "Skipping rune"]
            ELSE << >>
  /\ result' = [feed |-> NilFeed, err |-> NoErr]
  /\ pc' = "cleaned"
  /\ UNCHANGED <<data, doc, verbose, clock, rewrote, errs, attempts, calls,
                 prev, encodingName>>
  /\ UNCHANGED encVars

InitClean ==
  /\ data \in CleanBuffers
  /\ doc = MkDoc(RSSRoot, TRUE, DefaultLinks, 1, DefaultDate)
  /\ verbose = FALSE
  /\ clock = NowBase
  /\ pc = "clean"
  /\ utf8Data = << >>
  /\ rewrote = FALSE
  /\ errs = NoErrs
  /\ attempts = << >>
  /\ result = NoResult
  /\ log = << >>
  /\ calls = 0
  /\ prev = [valid |-> FALSE, feed |-> NilFeed, err |-> NoErr]
  /\ feed = NilFeed
  /\ epc = "idle"
  /\ out = NoOut
  /\ xmlBody = NoBody
  /\ xmlDoc = << >>
  /\ encodingName = << >>

NextClean == CleanXML \/ SetVerbose

SpecClean == InitClean /\ [][NextClean]_vars

\* The buffers updateXMLv1HeaderToUTF8 is called on: every declaration
\* with every body, and the short buffers with and without a "?>".
HeaderBuffers ==
  { p \o b : p \in Prologs, b \in Bodies }
    \cup SeqsUpTo({PE, LF, ROOT}, MaxLen)

\* A caller runs updateXMLv1HeaderToUTF8(data).
UpdateHeader ==
  /\ pc = "header"
  /\ LET returned(h) ==
           /\ utf8Data' = h.data
           /\ result' = [feed |-> NilFeed, err |-> h.err]
     IN  returned(updateXMLv1HeaderToUTF8(data))
  /\ pc' = "headed"
  /\ UNCHANGED <<data, doc, verbose, clock, rewrote, errs, attempts, log,
                 calls, prev, encodingName>>
  /\ UNCHANGED encVars

InitHeader ==
  /\ data \in HeaderBuffers
  /\ doc = MkDoc(RSSRoot, TRUE, DefaultLinks, 1, DefaultDate)
  /\ verbose = FALSE
  /\ clock = NowBase
  /\ pc = "header"
  /\ utf8Data = << >>
  /\ rewrote = FALSE
  /\ errs = NoErrs
  /\ attempts = << >>
  /\ result = NoResult
  /\ log = << >>
  /\ calls = 0
  /\ prev = [valid |-> FALSE, feed |-> NilFeed, err |-> NoErr]
  /\ feed = NilFeed
  /\ epc = "idle"
  /\ out = NoOut
  /\ xmlBody = NoBody
  /\ xmlDoc = << >>
  /\ encodingName = << >>

NextHeader == UpdateHeader \/ SetVerbose

SpecHeader == InitHeader /\ [][NextHeader]_vars

\* The values of the encoding attribute: names of encodings in both letter
\* cases, a name no table has, and values that hold quote characters or
\* white space.
EncValues ==
  { <<UTF8U>>, <<UTF8L>>, <<LATINU>>, <<LATINL>>, <<BOGUS>>,
    <<SQ>>, <<SQ, LATINU, SQ>>, <<DQ, UTF8U>>, <<BOGUS, DQ>>,
    <<BOGUS, SP, BOGUS>> }

\* What may follow the encoding attribute in a declaration.
DeclTails ==
  { <<PE>>, <<SP, PE>>, <<SP, SAL, DQ, YES, DQ, PE>>,
    <<SP, SAL, SQ, NO, SQ, SP, PE>> }

\* A value between quotes q; the value holds no q.
Quotable(q, v) == \A i \in 1..Len(v) : v[i] # q

\* The buffers getEncodingName is called on: the declarations of Prologs,
\* and the declarations made of a version, an encoding attribute or none,
\* and a tail, alone and before a document element.
EncodingBuffers ==
  Prologs
  \cup UNION { { Version(qv) \o <<SP, ENC, q>> \o v \o <<q>> \o t \o b :
                   qv \in {DQ, SQ},
                   v \in { w \in EncValues : Quotable(q, w) },
                   t \in DeclTails, b \in {<< >>, <<LF, ROOT, LF>>} } :
                 q \in {DQ, SQ} }
  \cup { Version(qv) \o t \o b :
           qv \in {DQ, SQ}, t \in DeclTails, b \in {<< >>, <<LF, ROOT, LF>>} }

\* A caller runs getEncodingName(data).
GetEncodingName ==
  /\ pc = "name"
  /\ LET returned(e) ==
           /\ encodingName' = e.name
           /\ result' = [feed |-> NilFeed, err |-> e.err]
     IN  returned(getEncodingName(data))
  /\ pc' = "named"
  /\ UNCHANGED <<data, doc, verbose, clock, utf8Data, rewrote, errs,
                 attempts, log, calls, prev>>
  /\ UNCHANGED encVars

InitEncoding ==
  /\ data \in EncodingBuffers
  /\ doc = MkDoc(RSSRoot, TRUE, DefaultLinks, 1, DefaultDate)
  /\ verbose = FALSE
  /\ clock = NowBase
  /\ pc = "name"
  /\ utf8Data = << >>
  /\ rewrote = FALSE
  /\ errs = NoErrs
  /\ attempts = << >>
  /\ result = NoResult
  /\ log = << >>
  /\ calls = 0
  /\ prev = [valid |-> FALSE, feed |-> NilFeed, err |-> NoErr]
  /\ feed = NilFeed
  /\ epc = "idle"
  /\ out = NoOut
  /\ xmlBody = NoBody
  /\ xmlDoc = << >>
  /\ encodingName = << >>

NextEncoding == GetEncodingName \/ SetVerbose

SpecEncoding == InitEncoding /\ [][NextEncoding]_vars

\* ParseFeedXML as one function of the buffer, the time and the flag:
\* [feed, err].
ParseFeedXML(buf, d, now, verb) ==
  LET ok(r) == [feed |-> r.feed, err |-> NoErr]
      atom(e1, e2, r) ==
        IF r.err = NoErr THEN ok(r)
        ELSE [feed |-> NilFeed,
              err |-> AggregateErr([RSS |-> e1, RDF |-> e2, Atom |-> r.err])]
      rdf(u, e1, r) ==
        IF r.err = NoErr THEN ok(r)
        ELSE atom(e1, r.err, parseAsAtom(u, cleanedDoc(d), now, verb))
      rss(u, r) ==
        IF r.err = NoErr THEN ok(r)
        ELSE rdf(u, r.err, parseAsRDF(u, cleanedDoc(d), now, verb))
      decoded(u) ==
        IF u.err # NoErr THEN [feed |-> NilFeed, err |-> u.err]
        ELSE rss(u.data, parseAsRSS(u.data, cleanedDoc(d), now, verb))
  IN  decoded(decodeToUTF8AndClean(buf))


----------------------------------------------------------------------------
(* Properties.                                                             *)

Done == pc = "done"
Succeeded == pc = "done" /\ result.err = NoErr

\* The dialect parsers' verdict on the buffer the attempts read.
Accepts(d) ==
  IF d = "RSS" THEN parseAsRSS(utf8Data, doc, clock, verbose).err = NoErr
  ELSE IF d = "RDF" THEN parseAsRDF(utf8Data, doc, clock, verbose).err = NoErr
  ELSE parseAsAtom(utf8Data, doc, clock, verbose).err = NoErr

IsPrefix(p, q) == Len(p) <= Len(q) /\ p = SubSeq(q, 1, Len(p))

\* C1: the dialects are attempted in the order RSS, RDF, Atom, a dialect
\* only after every earlier one failed, and a feed that is returned is the
\* feed of the first dialect in that order that accepts the buffer.
C1_FirstMatchInOrder ==
  /\ IsPrefix(attempts, <<"RSS", "RDF", "Atom">>)
  /\ \A i \in 1..(Len(attempts) - 1) : errs[attempts[i]] # NoErr
  /\ Succeeded =>
       /\ attempts # << >>
       /\ result.feed.Type = attempts[Len(attempts)]
       /\ Accepts(result.feed.Type)
       /\ \A i \in 1..(Len(attempts) - 1) : ~Accepts(attempts[i])

C1_Witness ==
  Succeeded /\ attempts = <<"RSS", "RDF", "Atom">> /\ result.feed.Type = "Atom"

\* The date strings the returned feed was built from.
SrcFeedDate ==
  IF result.feed.Type = "RSS" THEN UnmarshalRSS(doc).PubDate
  ELSE IF result.feed.Type = "RDF" THEN UnmarshalRDF(doc).PubDate
  ELSE UnmarshalAtom(doc).Updated

SrcItems ==
  IF result.feed.Type = "RSS" THEN UnmarshalRSS(doc).Items
  ELSE IF result.feed.Type = "RDF" THEN UnmarshalRDF(doc).RDFItems
  ELSE UnmarshalAtom(doc).Items

\* No timestamp grammar accepts the string.
Unparseable(str) ==
  \A i \in 1..Len(Layouts) : ~TimeParse(Layouts[i], TrimSpace(str)).ok

\* C2: a feed or item whose date string is empty or matches no timestamp
\* grammar gets the zero instant as its publication time.
C2_FallbackIsZeroInstant ==
  Succeeded =>
    /\ (SrcFeedDate = "" \/ Unparseable(SrcFeedDate))
         => result.feed.PubDate = ZeroTime
    /\ \A i \in 1..Len(result.feed.Items) :
         (SrcItems[i].date = "" \/ Unparseable(SrcItems[i].date))
           => result.feed.Items[i].PubDate = ZeroTime

\* A well-formed RSS document with no XML declaration in front of it.
BareRSS ==
  /\ \A i \in 1..Len(data) : data[i] = ROOT \/ IsSpace(data[i])
  /\ \E i \in 1..Len(data) : data[i] = ROOT
  /\ doc.wf /\ doc.local = "rss" /\ doc.shape = "rss"

\* C3: ParseFeedXML on a well-formed RSS document without XML declaration
\* succeeds with a feed of Type RSS that carries the channel and items.
C3_NoDeclarationRSS ==
  (Done /\ BareRSS) =>
    /\ result.err = NoErr
    /\ result.feed.Type = "RSS"
    /\ result.feed.Title = doc.title
    /\ result.feed.Description = doc.desc
    /\ Len(result.feed.Items) = Len(doc.items)


\* The leading declaration of a buffer: from its first <?xml up to the
\* first ?> after it (or the end of the buffer).
DeclStart(b) == IndexFrom(b, XMLO, 1)
DeclEnd(b) ==
  IF DeclStart(b) = 0 THEN 0
  ELSE IF IndexFrom(b, PE, DeclStart(b)) = 0 THEN Len(b)
  ELSE IndexFrom(b, PE, DeclStart(b))
Decl(b) == IF DeclStart(b) = 0 THEN << >> ELSE SubSeq(b, DeclStart(b), DeclEnd(b))

NoDeclaration(b) == DeclStart(b) = 0

OtherVersion(b) ==
  \E i \in 1..(Len(Decl(b)) - 3) :
    /\ Decl(b)[i] = VER /\ IsQuote(Decl(b)[i + 1])
    /\ Decl(b)[i + 2] = V11 /\ Decl(b)[i + 3] = Decl(b)[i + 1]

EncUnquoted(b) ==
  \E i \in 1..Len(Decl(b)) :
    /\ Decl(b)[i] = ENC
    /\ (i = Len(Decl(b)) \/ ~IsQuote(Decl(b)[i + 1]))

\* The value opens with a quote that the declaration never closes.
EncMismatched(b) ==
  \E i \in 1..(Len(Decl(b)) - 2) :
    /\ Decl(b)[i] = ENC /\ IsQuote(Decl(b)[i + 1])
    /\ ~IsQuote(Decl(b)[i + 2])
    /\ \A k \in (i + 2)..Len(Decl(b)) : Decl(b)[k] # Decl(b)[i + 1]

EncEmpty(b) ==
  \E i \in 1..(Len(Decl(b)) - 2) :
    /\ Decl(b)[i] = ENC /\ IsQuote(Decl(b)[i + 1])
    /\ Decl(b)[i + 2] = Decl(b)[i + 1]
    /\ \A k \in (i + 3)..Len(Decl(b)) : Decl(b)[k] # Decl(b)[i + 1]

FaultyDeclaration(b) ==
  NoDeclaration(b) \/ OtherVersion(b) \/ EncUnquoted(b) \/ EncMismatched(b)
    \/ EncEmpty(b)

\* Nothing after the leading declaration can be read as a declaration or
\* as the end of a quoted value.
NothingAfterDecl(b) ==
  \A k \in (DeclEnd(b) + 1)..Len(b) : b[k] # XMLO /\ ~IsQuote(b[k])

MalformedPrologErrs == {ErrMalformedHeader, ErrNoEncoding}

C5_NoRewriteForUTF8 ==
  (/\ pc \notin {"idle", "decode"}
   /\ getEncodingName(data).err = NoErr
   /\ getEncodingName(data).name \in {<<UTF8U>>, <<UTF8L>>}) =>
    /\ ~rewrote
    /\ result.err \notin {ErrNoHeaderEnd, ErrEndsWithHeader}
    /\ (result.err = NoErr =>
          utf8Data = cleanXMLv1(
                       convertToUTF8(data, getEncodingName(data).name).data))

\* The positions of the links with rel="self".
SelfLinks(links) == { i \in 1..Len(links) : links[i].rel = "self" }
Least(S) == CHOOSE i \in S : \A j \in S : i <= j

\* C6 as stated: the link of an Atom feed is the href of its first link
\* with rel="self", and of its first link when no link has rel="self".
C6_FeedLinkSelfOrFirst ==
  (Succeeded /\ result.feed.Type = "Atom") =>
    result.feed.Link =
      IF SelfLinks(doc.atomLinks) # {}
      THEN doc.atomLinks[Least(SelfLinks(doc.atomLinks))].href
      ELSE IF doc.atomLinks # << >> THEN doc.atomLinks[1].href ELSE ""

\* C6 amended: the link of an Atom feed is the href of its first link
\* with rel="self", and empty when no link has rel="self".
C6_FeedLinkSelfOrEmpty ==
  (Succeeded /\ result.feed.Type = "Atom") =>
    result.feed.Link =
      IF SelfLinks(doc.atomLinks) # {}
      THEN doc.atomLinks[Least(SelfLinks(doc.atomLinks))].href
      ELSE ""

C6_Witness ==
  /\ Succeeded /\ result.feed.Type = "Atom"
  /\ Len(doc.atomLinks) = 2
  /\ doc.atomLinks[1].rel # "self" /\ doc.atomLinks[2].rel = "self"
  /\ result.feed.Link = doc.atomLinks[2].href

\* C7 as stated: the link of an Atom item is the href of the entry's first
\* link with rel="self", of its first link when none has rel="self", and
\* empty when the entry has no links.
C7_ItemLinkSelfOrFirst ==
  (Succeeded /\ result.feed.Type = "Atom") =>
    \A i \in 1..Len(result.feed.Items) :
      result.feed.Items[i].Link =
        IF SelfLinks(doc.items[i].atomLinks) # {}
        THEN doc.items[i].atomLinks[Least(SelfLinks(doc.items[i].atomLinks))].href
        ELSE IF doc.items[i].atomLinks # << >>
             THEN doc.items[i].atomLinks[1].href ELSE ""

\* C7 amended: the link of an Atom item is the href of the entry's first
\* link, whatever its rel, and empty when the entry has no links.
C7_ItemLinkFirst ==
  (Succeeded /\ result.feed.Type = "Atom") =>
    /\ Len(result.feed.Items) = Len(doc.items)
    /\ \A i \in 1..Len(result.feed.Items) :
         result.feed.Items[i].Link =
           IF doc.items[i].atomLinks # << >>
           THEN doc.items[i].atomLinks[1].href ELSE ""

C7_Witness ==
  /\ Succeeded /\ result.feed.Type = "Atom"
  /\ \E i \in 1..Len(result.feed.Items) :
       /\ Len(doc.items[i].atomLinks) = 2
       /\ doc.items[i].atomLinks[1].rel # "self"
       /\ doc.items[i].atomLinks[2].rel = "self"
       /\ result.feed.Items[i].Link = doc.items[i].atomLinks[1].href

\* C8: a call of ParseFeedXML returns what the previous call on the same
\* buffer returned: the same error, or a feed equal in every field.
C8_SameResultAsPreviousCall ==
  (Done /\ prev.valid) =>
    /\ result.err = prev.err
    /\ result.feed = prev.feed

\* e holds the elements of sub, in a row.
Carries(e, sub) ==
  \E i \in 1..(Len(e) - Len(sub) + 1) : SubSeq(e, i, i + Len(sub) - 1) = sub

\* C9: when the three attempts failed, ParseFeedXML returns no feed and one
\* error that carries the error of each of the three attempts.
C9_AggregateCarriesReasons ==
  (Done /\ Len(attempts) = 3 /\ result.err # NoErr) =>
    /\ result.feed = NilFeed
    /\ Carries(result.err, parseAsRSS(utf8Data, doc, clock, verbose).err)
    /\ Carries(result.err, parseAsRDF(utf8Data, doc, clock, verbose).err)
    /\ Carries(result.err, parseAsAtom(utf8Data, doc, clock, verbose).err)
    /\ parseAsRSS(utf8Data, doc, clock, verbose).err # NoErr
    /\ parseAsRDF(utf8Data, doc, clock, verbose).err # NoErr
    /\ parseAsAtom(utf8Data, doc, clock, verbose).err # NoErr

C9_Witness ==
  /\ Done /\ attempts = <<"RSS", "RDF", "Atom">> /\ result.err # NoErr
  /\ doc.wf /\ doc.local = "html"

\* C10: a returned feed has Type RSS only for a root named rss in any
\* letter case, RDF only for a root named rdf in any letter case, Atom only
\* for the root feed of the Atom namespace, and no other Type; a document
\* with any other root fails.
C10_TypeMatchesRoot ==
  /\ Succeeded =>
       \/ result.feed.Type = "RSS" /\ doc.local \in {"rss", "RSS"}
       \/ result.feed.Type = "RDF" /\ doc.local \in {"rdf", "RDF"}
       \/ /\ result.feed.Type = "Atom"
          /\ doc.local = "feed" /\ doc.space = AtomNS
  /\ (/\ Done
      /\ doc.local \notin {"rss", "RSS", "rdf", "RDF"}
      /\ ~(doc.local = "feed" /\ doc.space = AtomNS)) => result.err # NoErr

C10_Witness ==
  Succeeded /\ result.feed.Type = "RDF" /\ doc.local = "RDF"


----------------------------------------------------------------------------
(* makeXML and the round trip.                                             *)

\* The running or finished call of ParseFeedXML is on what makeXML
\* returned for feed.
ParsedEncoded == epc = "returned" /\ data = xmlDoc /\ doc = xmlBody

\* The decoded feed has the fields of f: the texts, the instants to the
\* second, the items in order, each GUID the link of its item.
Reproduces(g, f) ==
  /\ g.Type = "RSS"
  /\ g.Title = f.Title
  /\ g.Link = f.Link
  /\ g.Description = f.Description
  /\ g.PubDate.sec = f.PubDate.sec
  /\ Len(g.Items) = Len(f.Items)
  /\ \A i \in 1..Len(f.Items) :
       /\ g.Items[i].Title = f.Items[i].Title
       /\ g.Items[i].Link = f.Items[i].Link
       /\ g.Items[i].Description = f.Items[i].Description
       /\ g.Items[i].PubDate.sec = f.Items[i].PubDate.sec
       /\ g.Items[i].GUID = f.Items[i].Link

\* C11 as stated: for any Feed f, ParseFeedXML(makeXML(f)) succeeds with
\* Type RSS and reproduces the title, link, description and publication
\* time of f and of each of its items, each GUID being the item's link.
C11_RoundTripAnyFeed ==
  (Done /\ ParsedEncoded) =>
    /\ result.err = NoErr
    /\ Reproduces(result.feed, feed)

\* Every character of the text is of the XML 1.0 Char production and is
\* not U+FFFD.
TextSurvives(str) == str \notin {"bell[U+0007]", "mark[U+FFFD]"}

\* The year of the time has at most four digits.
YearFits(t) == t.sec # FarSec

\* The texts and times of f all pass through a document unchanged.
Representable(f) ==
  /\ TextSurvives(f.Title) /\ TextSurvives(f.Link)
  /\ TextSurvives(f.Description)
  /\ YearFits(f.PubDate)
  /\ \A i \in 1..Len(f.Items) :
       /\ TextSurvives(f.Items[i].Title) /\ TextSurvives(f.Items[i].Link)
       /\ TextSurvives(f.Items[i].Description)
       /\ YearFits(f.Items[i].PubDate)

\* C11 amended: the round trip reproduces a Feed whose texts hold only
\* characters of the XML 1.0 Char production other than U+FFFD and whose
\* times have a year of at most four digits.
C11_RoundTripRepresentable ==
  (Done /\ ParsedEncoded /\ Representable(feed)) =>
    /\ result.err = NoErr
    /\ Reproduces(result.feed, feed)

C11_Witness ==
  /\ Done /\ ParsedEncoded /\ Representable(feed)
  /\ Len(feed.Items) = 2
  /\ feed.Items[1].Title = "Q&A <1>"
  /\ feed.Items[1].PubDate.off # 0 \/ feed.Items[2].Link = "Q&A <1>"
  /\ result.feed.Items[1].Title = "Q&A <1>"

----------------------------------------------------------------------------
(* The times of a decoded feed.                                            *)

\* The instant a date string denotes by the calendar, in seconds since
\* 1970, and the offset from UTC it carries, in minutes; PST is eight hours
\* behind UTC.
Denoted(str) ==
  IF str \in {"Sat, 29 Jun 2013 18:20:00 GMT", " Sat, 29 Jun 2013 18:20:00 GMT "}
  THEN [sec |-> 1372530000, off |-> 0]
  ELSE IF str = "Sat, 29 Jun 2013 18:20:00 PST"
  THEN [sec |-> 1372558800, off |-> 0 - 480]
  ELSE IF str = "Mon, 08 Apr 2019 10:20:30 -0700"
  THEN [sec |-> 1554744030, off |-> 0 - 420]
  ELSE IF str = "Sun, 25 Dec 2016 11:00:00 +0000"
  THEN [sec |-> 1482663600, off |-> 0]
  ELSE IF str = "2017-01-17T21:30:14+00:00"
  THEN [sec |-> 1484688614, off |-> 0]
  ELSE IF str = "Wednesday, October 28, 2015, 15:24 -0700"
  THEN [sec |-> 1446071040, off |-> 0 - 420]
  ELSE IF str = "Sat, May 7 2011 12:56:00 +0000"
  THEN [sec |-> 1304772960, off |-> 0]
  ELSE IF str = "Tuesday, August 14, 2012 20:45 +0000"
  THEN [sec |-> 1344977100, off |-> 0]
  ELSE IF str = "Monday, September 5 2011 13:54:00 +0000"
  THEN [sec |-> 1315230840, off |-> 0]
  ELSE IF str = "Wed, July 18 2011 09:59:00 +0000"
  THEN [sec |-> 1310983140, off |-> 0]
  ELSE IF str = "Sun, 09 Apr 2017 05:06 GMT"
  THEN [sec |-> 1491714360, off |-> 0]
  ELSE [sec |-> ZeroSec, off |-> 0]

\* The date strings that denote an instant.
IsDate(str) == str \notin {"", "  ", "junk"}

\* The zone of the date string is a numeric offset, GMT or UTC.
NumericOrGMT(str) == str # "Sat, 29 Jun 2013 18:20:00 PST"

----------------------------------------------------------------------------
(* The verbosity flag.                                                     *)

\* C13: what ParseFeedXML returns does not depend on the verbosity flag:
\* the error or feed a call returned is what ParseFeedXML returns on its
\* buffer with the flag on and with the flag off, at a time of the call.
C13_OutcomeIgnoresVerbosity ==
  Done =>
    \E now \in NowBase..clock :
      \A v \in BOOLEAN : result = ParseFeedXML(data, doc, now, v)

\* A call that ran with the flag on, wrote messages and returned a feed
\* with a missing date.
C13_Witness ==
  /\ Succeeded /\ verbose
  /\ \E i \in 1..Len(log) : log[i] = LogNoDate
  /\ \E i \in 1..Len(result.feed.Items) :
       result.feed.Items[i].PubDate = TimeNow(clock)

----------------------------------------------------------------------------
(* Calls running side by side.                                             *)

\* A step of a call of ParseFeedXML or of makeXML.
CoreStep == pc' # pc \/ epc' # epc

\* C14: with a call of ParseFeedXML and a call of makeXML interleaved in
\* any way, and the flag set from outside at any moment, each call returns
\* what it returns alone on its argument, and no step of either call
\* writes the flag.
C14_InterleavedCallsAsAlone ==
  /\ [](Done => \E now \in NowBase..clock :
                  result = ParseFeedXML(data, doc, now, verbose))
  /\ [](epc = "returned" =>
          xmlDoc = makeXML(feed).data /\ xmlBody = makeXML(feed).doc)
  /\ [][CoreStep => verbose' = verbose]_vars

\* Both calls are under way, the flag has been set meanwhile.
C14_Witness ==
  /\ pc \in {"RSS", "RDF", "Atom"}
  /\ epc \in {"marshal", "assemble"}
  /\ attempts # << >>
  /\ verbose

----------------------------------------------------------------------------
(* The document makeXML writes.                                            *)

\* makeXML has marshalled its document.
Marshalled == epc \in {"assemble", "returned"}

\* C15: in the document makeXML writes, the guid of every item is the link
\* of that item, whatever the GUID of the Item is.
C15_GuidIsLink ==
  Marshalled =>
    /\ Len(xmlBody.items) = Len(feed.Items)
    /\ \A i \in 1..Len(feed.Items) :
         /\ xmlBody.items[i].id = xmlBody.items[i].link
         /\ xmlBody.items[i].id = EscapeText(feed.Items[i].Link)

C15_Witness ==
  /\ epc = "returned"
  /\ \E i \in 1..Len(feed.Items) :
       /\ feed.Items[i].GUID = "id-1"
       /\ feed.Items[i].Link = "http://example.com/1"
       /\ xmlBody.items[i].id = "http://example.com/1"

\* <?xml version="1.0" encoding="UTF-8"?>
FixedDeclaration == <<XMLO, SP, VER, DQ, V10, DQ, SP, ENC, DQ, UTF8U, DQ, PE>>

\* C16: the bytes makeXML returns start with the fixed declaration, hold
\* one rss element and end with it, with no newline after it; the pubDate
\* and lastBuildDate of its channel are one string, the formatted
\* publication time of the feed; its items are those of feed.Items, one
\* each and in their order.
C16_DocumentLayout ==
  epc = "returned" =>
    /\ IsPrefix(FixedDeclaration, xmlDoc)
    /\ Cardinality({ i \in 1..Len(xmlDoc) : xmlDoc[i] = ROOT }) = 1
    /\ xmlDoc[Len(xmlDoc)] = ROOT
    /\ xmlBody.local = "rss" /\ xmlBody.shape = "rss"
    /\ xmlBody.date = xmlBody.lastBuildDate
    /\ xmlBody.date = FormatRFC1123Z(feed.PubDate)
    /\ Len(xmlBody.items) = Len(feed.Items)
    /\ \A i \in 1..Len(feed.Items) :
         /\ xmlBody.items[i].title = EscapeText(feed.Items[i].Title)
         /\ xmlBody.items[i].link = EscapeText(feed.Items[i].Link)
         /\ xmlBody.items[i].desc = EscapeText(feed.Items[i].Description)
         /\ xmlBody.items[i].date = FormatRFC1123Z(feed.Items[i].PubDate)

C16_Witness ==
  /\ epc = "returned"
  /\ Len(feed.Items) >= 2
  /\ xmlBody.items[2].title = "item 2"
  /\ feed.Items[1].PubDate.off = 0 - 420
  /\ xmlBody.items[1].date = "Mon, 08 Apr 2019 10:20:30 -0700"
  /\ xmlBody.lastBuildDate = "Sun, 25 Dec 2016 11:00:00 +0000"

----------------------------------------------------------------------------
(* The items of a decoded feed.                                            *)

\* The item or entry elements of the document that belong to the dialect
\* the feed was decoded as.
Entries ==
  IF \/ result.feed.Type = "RSS" /\ doc.shape = "rss"
     \/ result.feed.Type = "RDF" /\ doc.shape = "rdf"
     \/ result.feed.Type = "Atom" /\ doc.shape = "atom"
  THEN doc.items ELSE << >>

\* C17: the GUID of a decoded item is the guid element of the item for a
\* feed decoded as RSS, the id element of the entry for one decoded as
\* Atom, and empty for one decoded as RDF.
C17_GuidByDialect ==
  Succeeded =>
    /\ Len(result.feed.Items) = Len(Entries)
    /\ \A i \in 1..Len(Entries) :
         result.feed.Items[i].GUID =
           IF result.feed.Type = "RDF" THEN "" ELSE Entries[i].id

C17_Witness ==
  /\ Succeeded /\ result.feed.Type = "RDF"
  /\ Len(result.feed.Items) >= 2
  /\ Entries[2].id = "id-2"
  /\ result.feed.Items[2].GUID = ""

\* C18: the items of a decoded feed are the item or entry elements of the
\* document, one for one and in document order: as many, and the i-th
\* item made from the i-th element.
C18_ItemsInDocumentOrder ==
  Succeeded =>
    /\ Len(result.feed.Items) = Len(Entries)
    /\ \A i \in 1..Len(Entries) :
         /\ result.feed.Items[i].Title = Entries[i].title
         /\ result.feed.Items[i].Description = Entries[i].desc
         /\ result.feed.Type # "Atom" =>
              result.feed.Items[i].Link = Entries[i].link

C18_Witness ==
  /\ Succeeded /\ result.feed.Type = "Atom"
  /\ Len(result.feed.Items) = MaxItems
  /\ result.feed.Items[1].Title = "item 1"
  /\ result.feed.Items[MaxItems].Title = ItemNames[MaxItems]

----------------------------------------------------------------------------
(* The order of the timestamp grammars.                                    *)

\* The grammars in the order the claim gives: RFC 1123 with a named zone,
\* RFC 1123 with a numeric offset, RFC 3339, the long-form layouts, the
\* hour:minute layout with a named zone.
GrammarOrder == <<"RFC1123", "RFC1123Z", "RFC3339", "layout0", "layout1",
                  "layout2", "layout3", "layout4", "yarchive">>

\* The date string without the white space around it.
Trimmed(str) ==
  IF str = " Sat, 29 Jun 2013 18:20:00 GMT "
  THEN "Sat, 29 Jun 2013 18:20:00 GMT"
  ELSE IF str = "  " THEN "" ELSE str

\* The positions in GrammarOrder of the grammars that accept the string.
Accepting(str) ==
  { k \in 1..Len(GrammarOrder) : TimeParse(GrammarOrder[k], Trimmed(str)).ok }

\* What the first accepting grammar makes of the string.
FirstAccepted(str) ==
  TimeParse(GrammarOrder[Least(Accepting(str))], Trimmed(str)).t

\* The time is what the claim says the date string gives.
InGrammarOrder(str, t) ==
  /\ (str # "" /\ Accepting(str) # {}) => t = FirstAccepted(str)
  /\ Accepting(str) = {Len(GrammarOrder)} =>
       /\ t.sec = Denoted(str).sec
       /\ t.sec % 60 = 0

\* C19: parseTime tries the grammars in the fixed order and returns the
\* instant of the first one that accepts the trimmed string; a string only
\* the last grammar accepts gives its instant, with zero seconds, not the
\* fallback.
C19_FirstGrammarInOrder ==
  Succeeded =>
    /\ InGrammarOrder(SrcFeedDate, result.feed.PubDate)
    /\ \A i \in 1..Len(result.feed.Items) :
         InGrammarOrder(SrcItems[i].date, result.feed.Items[i].PubDate)

C19_Witness ==
  /\ Succeeded
  /\ SrcFeedDate = "Sun, 09 Apr 2017 05:06 GMT"
  /\ Accepting(SrcFeedDate) = {9}
  /\ result.feed.PubDate.sec = 1491714360
  /\ result.feed.PubDate # TimeNow(clock)

----------------------------------------------------------------------------
(* cleanXMLv1.                                                             *)

\* The Char production of XML 1.0:
\* #x9 | #xA | #xD | [#x20-#xD7FF] | [#xE000-#xFFFD] | [#x10000-#x10FFFF];
\* a run of printable ASCII is made of such characters, a byte that is not
\* UTF-8 is none.
InCharProduction(c) ==
  IF c < 0 THEN c # RAWE9
  ELSE c \in {9, 10, 13} \/ c \in 32..55295 \/ c \in 57344..65533
         \/ c \in 65536..1114111

\* C20: every code point of what cleanXMLv1 returns is of the XML 1.0 Char
\* production and is not U+FFFD, and cleanXMLv1 returns no error, however
\* many characters it removed.
C20_CleanOutputIsXMLChars ==
  pc = "cleaned" =>
    /\ \A i \in 1..Len(utf8Data) :
         InCharProduction(utf8Data[i]) /\ utf8Data[i] # REPL
    /\ result.err = NoErr

C20_Witness ==
  /\ pc = "cleaned"
  /\ data = <<VT, 57344, REPL>>
  /\ utf8Data = <<57344>>
  /\ result.err = NoErr


\* The code points of a buffer: ranging over the string yields U+FFFD for
\* a byte that is not UTF-8.
CodePoints(b) == [i \in 1..Len(b) |-> IF b[i] = RAWE9 THEN REPL ELSE b[i]]

\* A code point cleanXMLv1 is to delete.
Disallowed(c) == ~InCharProduction(c) \/ c = REPL

\* C21: what cleanXMLv1 returns is the sequence of the code points of its
\* input without those outside the Char production and without U+FFFD,
\* every other code point kept as it was and in its original order.
C21_RemovesExactlyDisallowed ==
  pc = "cleaned" =>
    utf8Data = SelectSeq(CodePoints(data), LAMBDA c : ~Disallowed(c))

C21_Witness ==
  /\ pc = "cleaned"
  /\ data = <<ROOT, VT, SP>>
  /\ utf8Data = <<ROOT, SP>>

\* C30: cleanXMLv1 applied to what cleanXMLv1 returned returns it
\* unchanged, for every input buffer.
C30_CleanIsIdempotent ==
  pc = "cleaned" => cleanXMLv1(utf8Data) = utf8Data

C30_Witness ==
  /\ pc = "cleaned"
  /\ data = <<31, 65534, 65536>>
  /\ utf8Data = <<65536>>
  /\ cleanXMLv1(utf8Data) = <<65536>>


----------------------------------------------------------------------------
(* updateXMLv1HeaderToUTF8 and getEncodingName, called alone.              *)

\* The position of the first "?>" of a buffer, or 0.
FirstEnd(b) ==
  IF \A i \in 1..Len(b) : b[i] # PE THEN 0
  ELSE CHOOSE i \in 1..Len(b) :
         b[i] = PE /\ \A j \in 1..(i - 1) : b[j] # PE

\* <?xml version="1.0" encoding="UTF-8"?>
CanonicalProlog ==
  <<XMLO, SP, VER, DQ, V10, DQ, SP, ENC, DQ, UTF8U, DQ, PE>>

\* C22: when updateXMLv1HeaderToUTF8 succeeds, what it returns is the
\* canonical prolog followed by exactly the bytes that came after the
\* first "?>" of its input.
C22_CanonicalPrologThenRest ==
  (pc = "headed" /\ result.err = NoErr) =>
    /\ FirstEnd(data) # 0
    /\ utf8Data = CanonicalProlog
                    \o [i \in 1..(Len(data) - FirstEnd(data)) |->
                          data[FirstEnd(data) + i]]

C22_Witness ==
  /\ pc = "headed"
  /\ result.err = NoErr
  /\ data = LatinProlog \o <<LF, PIO, SP, PE, ROOT>>
  /\ utf8Data = CanonicalProlog \o <<LF, PIO, SP, PE, ROOT>>

\* C23: updateXMLv1HeaderToUTF8 fails with "could not find end of XML
\* header" on an input without "?>" and with "document ends with XML
\* header" on an input in which nothing follows the first "?>", and
\* returns no buffer in both cases.
C23_HeaderErrors ==
  pc = "headed" =>
    /\ FirstEnd(data) = 0 =>
          result.err = ErrNoHeaderEnd /\ utf8Data = << >>
    /\ (FirstEnd(data) # 0 /\ FirstEnd(data) = Len(data)) =>
          result.err = ErrEndsWithHeader /\ utf8Data = << >>

C23_Witness ==
  /\ pc = "headed"
  /\ data = LatinProlog
  /\ result.err = ErrEndsWithHeader
  /\ utf8Data = << >>


\* The buffer is a declaration with the encoding attribute q v q, alone or
\* before a document element.
WithEncoding(b, q, v) ==
  \E qv \in {DQ, SQ}, t \in DeclTails, rest \in {<< >>, <<LF, ROOT, LF>>} :
    b = Version(qv) \o <<SP, ENC, q>> \o v \o <<q>> \o t \o rest

\* The buffer is a declaration without an encoding attribute, alone or
\* before a document element.
WithoutEncoding(b) ==
  \E qv \in {DQ, SQ}, t \in DeclTails, rest \in {<< >>, <<LF, ROOT, LF>>} :
    b = Version(qv) \o t \o rest

\* A value without the quote characters it begins and ends with.
Unquoted(v) ==
  LET keep == { i \in 1..Len(v) : ~IsQuote(v[i]) }
  IN  IF keep = {} THEN << >>
      ELSE SubSeq(v, CHOOSE i \in keep : \A j \in keep : i <= j,
                     CHOOSE i \in keep : \A j \in keep : j <= i)

\* C24 as stated: getEncodingName returns the value of the encoding
\* attribute without the quotes around it when the declaration has the
\* attribute, and "UTF-8" when it has none.
C24_ValueBetweenQuotes ==
  pc = "named" =>
    /\ \A q \in {DQ, SQ}, v \in EncValues :
         (Quotable(q, v) /\ WithEncoding(data, q, v)) =>
           result.err = NoErr /\ encodingName = v
    /\ WithoutEncoding(data) =>
         result.err = NoErr /\ encodingName = <<UTF8U>>

\* C24 amended: getEncodingName returns the value of the encoding
\* attribute without any quote character at its beginning and its end
\* when the declaration has the attribute and the value holds no white
\* space and is not made of quote characters only, and "UTF-8" when the
\* declaration has none.
C24_ValueWithoutQuotes ==
  pc = "named" =>
    /\ \A q \in {DQ, SQ}, v \in EncValues :
         (Quotable(q, v) /\ WithEncoding(data, q, v)
            /\ (\A i \in 1..Len(v) : ~IsSpace(v[i]))
            /\ Unquoted(v) # << >>) =>
           result.err = NoErr /\ encodingName = Unquoted(v)
    /\ WithoutEncoding(data) =>
         result.err = NoErr /\ encodingName = <<UTF8U>>

C24_Witness ==
  /\ pc = "named"
  /\ data = Version(DQ) \o <<SP, ENC, DQ, SQ, LATINU, SQ, DQ, PE>>
  /\ result.err = NoErr
  /\ encodingName = <<LATINU>>


----------------------------------------------------------------------------
(* Diagnostic messages.                                                    *)

\* C25: with config.Verbose off, no step of a call of ParseFeedXML writes
\* a message: the messages about skipped runes, fallback times and the
\* parsed dialect are written only with the flag on.
C25_SilentWhenNotVerbose ==
  [][~verbose => Len(log') <= Len(log)]_vars


----------------------------------------------------------------------------
(* The link of an RDF feed.                                                *)

\* C26: the link of a feed parsed as RDF is the first link element of the
\* channel, and the empty string when the channel has none.
C26_RDFLinkIsFirst ==
  (Succeeded /\ result.feed.Type = "RDF") =>
    result.feed.Link = IF doc.textLinks = << >> THEN ""
                       ELSE doc.textLinks[1]

C26_Witness ==
  /\ Succeeded
  /\ result.feed.Type = "RDF"
  /\ doc.textLinks = <<"http://example.com/alt", "http://example.com/">>
  /\ result.feed.Link = "http://example.com/alt"


----------------------------------------------------------------------------
(* The three dialect parsers on one buffer.                                *)

\* The dialects whose parser succeeds on the buffer the attempts read.
Accepted == { d \in {"RSS", "RDF", "Atom"} : Accepts(d) }

\* C27: at most one of parseAsRSS, parseAsRDF and parseAsAtom succeeds on
\* a buffer, so the dialect ParseFeedXML returns is the one dialect that
\* accepts the buffer, in whatever order the three are attempted.
C27_AtMostOneDialectAccepts ==
  /\ Cardinality(Accepted) <= 1
  /\ Succeeded => Accepted = {result.feed.Type}

C27_Witness ==
  /\ Succeeded
  /\ doc.space = AtomNS
  /\ doc.local = "rss"
  /\ result.feed.Type = "RSS"
  /\ Accepted = {"RSS"}


----------------------------------------------------------------------------
(* The declaration after decodeToUTF8AndClean.                             *)

\* decodeToUTF8AndClean returned a buffer to the running call.
Decoded ==
  \/ pc \in {"RSS", "RDF", "Atom", "fail"}
  \/ pc = "done" /\ attempts # << >>

\* The buffer holds an encoding attribute with the value name.
NamesEncoding(b, name) ==
  \E i \in 1..Len(b), q \in {DQ, SQ} :
    IsPrefix(<<ENC, q>> \o name \o <<q>>, Drop(b, i - 1))

\* C28: after decodeToUTF8AndClean succeeded on a buffer whose declaration
\* names an encoding other than UTF-8, the buffer it returned holds no
\* declaration that names that encoding.
C28_OriginalDeclarationReplaced ==
  (Decoded /\ ToLower(encodingName) # <<UTF8L>>) =>
    ~NamesEncoding(utf8Data, encodingName)


\* C29: no call fails with "could not find end of XML header": a buffer
\* getEncodingName accepts holds a "?>", which the conversion and
\* cleanXMLv1 keep, so updateXMLv1HeaderToUTF8 finds the end of the
\* header.
C29_HeaderEndAlwaysFound ==
  pc = "done" => result.err # ErrNoHeaderEnd

C29_Witness ==
  /\ pc = "done"
  /\ rewrote
  /\ data = LatinProlog \o <<LF, VT, ROOT>>
  /\ utf8Data = CanonicalProlog \o <<LF, ROOT>>
  /\ result.err # ErrNoHeaderEnd

====
